---- MODULE Spec2Model ----
(***************************************************************************)
(* Battle-card wizard: the paginated PDF export (exportProfessionalPDF,     *)
(* called from ExportStep.exportToPDF) and the generation batch             *)
(* (GenerateStep.generateBattleCardAsync).                                  *)
(*                                                                         *)
(* Lengths are millimetres, as in the jsPDF document the code creates       *)
(* (unit 'mm', format 'a4').  Widths that are handed to splitTextToSize are *)
(* kept in thirds of a millimetre, because the differentiator card width    *)
(* is 170/3 mm.  Glyph widths are 1/1000 em, the unit of the Helvetica      *)
(* metrics jsPDF measures text with.                                        *)
(***************************************************************************)
EXTENDS Integers, Sequences, FiniteSets, TLC

VARIABLES
    battleCard,        \* the record handed to ExportStep (prop battleCard)
    pc,                \* position of the export call
    y,                 \* let y: vertical offset on the current page
    page,              \* jsPDF's current page (1-based)
    numPages,          \* pdf.getNumberOfPages()
    font,              \* jsPDF's current font: [size, style]
    doc,               \* the drawing surface: every block drawn so far
    cpb,               \* the checkPageBreak calls of the latest step
    maxDiffHeight,     \* let maxDiffHeight
    i,                 \* index of the running forEach / for loop
    totalPages,        \* const totalPages (0 until the footer pass reads it)
    footers,           \* footers[p]: the "Page i of N" texts stamped on page p
    saved,             \* the file names pdf.save was called with
    toasts,            \* the notifications of the latest exportToPDF call
    copied,            \* ExportStep state: copied
    copyTimers,        \* pending setTimeout(() => setCopied(false), 2000)
    expandedSections,  \* ExportStep state: expandedSections
    downloads,         \* the files exportToJSON handed to the browser
    gpc,               \* position of generateBattleCardAsync
    data,              \* GenerateStep prop data: competitors, useCase, documents
    gi,                \* index of the competitor / document loop
    competitorAnalyses,\* const competitorAnalyses
    processedDocuments,\* const processedDocuments
    outstanding,       \* service calls awaited and not yet settled
    request,           \* the argument generateBattleCard was called with
    currentStep,       \* GenerateStep state: currentStep
    isComplete,        \* GenerateStep state: isComplete
    error,             \* GenerateStep state: error
    genCard,           \* GenerateStep state: battleCard
    gtoasts,           \* the toasts of the running generation
    calls,             \* the service calls issued by the running generation
    attempt,           \* how many times generateBattleCardAsync was entered
    wizardStep,        \* Index state: currentStep
    completedSteps,    \* Index state: completedSteps
    battleCardData,    \* Index: competitors, useCase, documents (the form)
    generatedBattleCard, \* Index state: generatedBattleCard (<<>> is null)
    validationTimers,  \* pending setTimeout(..., 1500) of addCompetitor
    nextId,            \* the next crypto.randomUUID()
    lpc,               \* position of the Lambda handler
    event,             \* the event the handler was invoked with
    invoked,           \* the InvokeModelCommands sent to Bedrock
    stored,            \* the items put into the DynamoDB table
    response           \* what the handler returned (<<>> while it runs)

pdfVars == <<pc, y, page, numPages, font, doc, cpb, maxDiffHeight, i,
             totalPages, footers, saved, toasts>>
uiVars == <<copied, copyTimers, expandedSections, downloads>>
genVars == <<gpc, data, gi, competitorAnalyses, processedDocuments,
             outstanding, request, currentStep, isComplete, error, genCard,
             gtoasts, calls, attempt>>
wizVars == <<wizardStep, completedSteps, battleCardData, generatedBattleCard,
             validationTimers, nextId>>
lamVars == <<lpc, event, invoked, stored, response>>
vars == <<battleCard, pdfVars, uiVars, genVars, wizVars, lamVars>>

-----------------------------------------------------------------------------
(* Page geometry                                                            *)

\* jsPDF's a4 page is 595.28 x 841.89 pt = 210.0016 x 297.0001 mm.  Every
\* offset the layout compares is a whole number of millimetres, so the
\* comparisons with pageHeight - margin come out as with 297 exactly.
pageWidth == 210
pageHeight == 297
margin == 15
contentWidth == pageWidth - (margin * 2)
colGap == 10
colWidthNoGap == contentWidth \div 2
colWidth == (contentWidth - colGap) \div 2
headerHeight == 45
diffGap == 5
diffCols == 3
\* in thirds of a millimetre: (contentWidth - diffGap * (diffCols - 1)) / diffCols
diffCardWidth3 == (3 * contentWidth - 3 * diffGap * (diffCols - 1)) \div diffCols
\* contentWidth * 0.35 and contentWidth * 0.65
col1Width == (contentWidth * 35) \div 100
col2Width == (contentWidth * 65) \div 100
lineHeight == 5

Max(a, b) == IF a > b THEN a ELSE b

-----------------------------------------------------------------------------
(* Text.  A string is a sequence of paragraphs (the parts between line      *)
(* breaks), a paragraph a sequence of words (the parts between spaces), a   *)
(* word is named by its index in the tables of Helvetica advance widths.    *)

\* the words of the records below
wRisk == 1          \* "risk"
wVuln == 2          \* "vulnerabilities"
wLong == 3          \* "cross-platform-interoperability"
wUndefined == 4     \* "undefined"
wBullet == 5        \* the bullet glyph
wNone == 6          \* the empty word between two spaces
wUrl == 7           \* a 78-character URL
RegularWidth == <<1555, 6057, 13169, 4392, 350, 0, 36179>>
BoldWidth == <<1779, 6725, 14558, 4778, 350, 0, 39230>>
spaceCharWidth == 278

Rep(n, w) == [k \in 1..n |-> w]
Str(words) == <<words>>
EmptyStr == <<<<>>>>
\* String(undefined), which is what splitTextToSize makes of an absent field
UndefinedStr == <<<<wUndefined>>>>

\* A word without a table entry is a chain: Chain(n) is n letters "x" with
\* no space between them, as a long identifier or URL is.
chainBase == 100
Chain(n) == chainBase + n
IsChain(w) == w >= chainBase
ChainLen(w) == w - chainBase
\* the advance width of "x" in Helvetica and in Helvetica-Bold
xWidth(style) == IF style = "bold" THEN 556 ELSE 500

\* Helvetica-Oblique has the advance widths of Helvetica
WordWidth(w, style) ==
    IF IsChain(w) THEN ChainLen(w) * xWidth(style)
    ELSE IF style = "bold" THEN BoldWidth[w] ELSE RegularWidth[w]

\* line_length + separator_length + current_word_length > maxlen, with
\* maxlen = scaleFactor * width / fontSize em and scaleFactor = 72 / 25.4:
\* x / 1000 > (72 / 25.4) * (w3 / 3) / size  <=>  x * size * 127 > w3 * 120000
TooWide(x, w3, f) == x * f.size * 127 > w3 * 120000

\* splitLongWord: a word wider than a line is chopped with no hyphen.  The
\* first piece is what fits strictly inside the rest of the hanging line
\* (used is its length with the separator), the other pieces are as many
\* letters as a whole line holds, the last one what is left.
splitLongWord(w, used, w3, f) ==
    LET n == ChainLen(w)
        xw == xWidth(f.style)
        first == Cardinality({j \in 1..n :
                     (used + j * xw) * f.size * 127 < w3 * 120000})
        perLine == Max(1, Cardinality({j \in 1..n : ~TooWide(j * xw, w3, f)}))
        rest == n - first
        count == (rest + perLine - 1) \div perLine
    IN  <<Chain(first)>>
        \o [j \in 1..count |->
               Chain(IF j < count THEN perLine
                     ELSE rest - (count - 1) * perLine)]

\* Is the word chopped: it does not fit after the hanging line and is wider
\* than a whole line
Chopped(w, lineLen, sep, w3, f) ==
    /\ IsChain(w)
    /\ TooWide(lineLen + sep + WordWidth(w, f.style), w3, f)
    /\ TooWide(WordWidth(w, f.style), w3, f)

\* The pieces of a chopped word: the first one ends the hanging line, the
\* ones in between are lines of their own, the last one begins a new line.
ChopInto(lines, pieces) ==
    [lines EXCEPT ![Len(lines)] = Append(@, pieces[1])]
    \o [j \in 1..(Len(pieces) - 2) |-> <<pieces[j + 1]>>]
    \o <<<<pieces[Len(pieces)]>>>>

\* The length of the line that the last piece of a chopped word begins
ChopLength(pieces, f) == WordWidth(pieces[Len(pieces)], f.style)

\* splitParagraphIntoLines.  The words of the tables are never wider than a
\* line in the records below; only a chain is.
RECURSIVE SplitParagraph(_, _, _, _, _, _, _)
SplitParagraph(words, k, lines, lineLen, sep, w3, f) ==
    IF k > Len(words) THEN lines
    ELSE IF Chopped(words[k], lineLen, sep, w3, f)
    THEN SplitParagraph(words, k + 1,
             ChopInto(lines, splitLongWord(words[k], lineLen + sep, w3, f)),
             ChopLength(splitLongWord(words[k], lineLen + sep, w3, f), f),
             spaceCharWidth, w3, f)
    ELSE IF TooWide(lineLen + sep + WordWidth(words[k], f.style), w3, f)
    THEN SplitParagraph(words, k + 1, Append(lines, <<words[k]>>),
                        WordWidth(words[k], f.style), spaceCharWidth, w3, f)
    ELSE SplitParagraph(words, k + 1,
                        [lines EXCEPT ![Len(lines)] = Append(@, words[k])],
                        lineLen + sep + WordWidth(words[k], f.style),
                        spaceCharWidth, w3, f)

RECURSIVE SplitFrom(_, _, _, _)
SplitFrom(text, p, w3, f) ==
    IF p > Len(text) THEN <<>>
    ELSE SplitParagraph(text[p], 1, <<<<>>>>, 0, 0, w3, f)
         \o SplitFrom(text, p + 1, w3, f)

\* pdf.splitTextToSize(text, width) at the current font
splitTextToSize(text, w3, f) == SplitFrom(text, 1, w3, f)

\* content.map(c => `•  ${c}`).join('\n\n'): every item is a paragraph that
\* starts with the bullet and an empty word, and an empty paragraph lies
\* between two items; the join of no items is the empty string.
RECURSIVE JoinBullets(_, _)
JoinBullets(items, k) ==
    IF Len(items) = 0 THEN EmptyStr
    ELSE IF k > Len(items) THEN <<>>
    ELSE (IF k > 1 THEN <<<<>>>> ELSE <<>>)
         \o <<(<<wBullet, wNone>> \o items[k][1])>>
         \o JoinBullets(items, k + 1)

\* contentLines.join('\n\n') of lines that are already split
RECURSIVE JoinLines(_, _)
JoinLines(lines, k) ==
    IF Len(lines) = 0 THEN EmptyStr
    ELSE IF k > Len(lines) THEN <<>>
    ELSE (IF k > 1 THEN <<<<>>>> ELSE <<>>) \o <<lines[k]>>
         \o JoinLines(lines, k + 1)

-----------------------------------------------------------------------------
(* The record.  has is the set of fields that are present; an absent field  *)
(* reads as undefined.                                                      *)

StringFields == {"overview", "pricing"}
ListFields == {"differentiators", "strengths", "weaknesses", "objections",
               "questions", "testimonials"}
Fields == StringFields \cup ListFields

Content(card, fld) ==
    IF fld \notin card.has THEN [tag |-> "undefined", v |-> <<>>]
    ELSE IF fld \in StringFields THEN [tag |-> "string", v |-> card[fld]]
    ELSE [tag |-> "array", v |-> card[fld]]

-----------------------------------------------------------------------------
(* The layout state s = [y, page, numPages, font, doc, cpb, ret] and the    *)
(* helper functions of exportProfessionalPDF, each taking it to the next.   *)

\* a block on the drawing surface: its page, top offset, height, left edge (in
\* thirds of a millimetre), the number of text lines drawn in it and, for a
\* table row, the lines of its two cells
Op(kind, sec, pg, top, h, idx, x3, n, q, a) ==
    [kind |-> kind, sec |-> sec, page |-> pg, y |-> top, h |-> h, idx |-> idx,
     x |-> x3, lines |-> n, q |-> q, a |-> a]

Draw(s, op) == [s EXCEPT !.doc = Append(@, op)]
SetFont(s, size, style) == [s EXCEPT !.font = [size |-> size, style |-> style]]
SetFontSize(s, size) == [s EXCEPT !.font.size = size]
SetFontStyle(s, style) == [s EXCEPT !.font.style = style]

\* checkPageBreak without y = margin
checkPageBreakNoReset(y0, pg, n, neededHeight) ==
    IF y0 + neededHeight > pageHeight - margin
    THEN [y |-> y0, page |-> n + 1, numPages |-> n + 1, ret |-> TRUE]
    ELSE [y |-> y0, page |-> pg, numPages |-> n, ret |-> FALSE]

\* checkPageBreak(neededHeight) on offset y0 of a document of n pages:
\* pdf.addPage() appends a page and makes it the current one
checkPageBreak(y0, pg, n, neededHeight) ==
    IF y0 + neededHeight > pageHeight - margin
    THEN [y |-> margin, page |-> n + 1, numPages |-> n + 1, ret |-> TRUE]
    ELSE [y |-> y0, page |-> pg, numPages |-> n, ret |-> FALSE]

\* a call of checkPageBreak, recorded in cpb with the state it found
CallCheckPageBreak(s, neededHeight) ==
    LET r == checkPageBreak(s.y, s.page, s.numPages, neededHeight)
    IN  [s EXCEPT !.y = r.y, !.page = r.page, !.numPages = r.numPages,
                  !.ret = r.ret,
                  !.cpb = Append(@, [y0 |-> s.y, h |-> neededHeight,
                                     pages0 |-> s.numPages, y1 |-> r.y,
                                     pages1 |-> r.numPages, ret |-> r.ret])]

drawSectionHeader(s, title) ==
    LET s1 == CallCheckPageBreak(s, 25)
        top == s1.y + 5
        s2 == Draw(SetFont(s1, 14, "bold"),
                   Op("sectionHeader", title, s1.page, top, 8, 0, 3 * margin, 1,
                      <<>>, <<>>))
    IN  [s2 EXCEPT !.y = top + 12]

\* the lines drawCard measures and draws
CardLines(content, w3, isList, f) ==
    IF content.tag = "array"
    THEN IF isList
         THEN splitTextToSize(JoinBullets(content.v, 1), w3 - 30, f)
         ELSE [k \in 1..Len(content.v) |->
                   <<wBullet, wNone>> \o content.v[k][1]]
    ELSE LET txt == IF content.tag = "undefined" THEN UndefinedStr
                    ELSE content.v
             contentLines == splitTextToSize(txt, w3 - 30, f)
         IN  IF isList
             THEN splitTextToSize(JoinLines(contentLines, 1), w3 - 30, f)
             ELSE contentLines

drawCard(s, x, yPos, w, title, content, isList) ==
    LET s1 == SetFontSize(s, 10)
        finalLines == CardLines(content, 3 * w, isList, s1.font)
        cardHeight == (Len(finalLines) * 5) + 20
        s2 == Draw(SetFont(s1, 9, "normal"),
                   Op("card", title, s.page, yPos, cardHeight, 0, 3 * x,
                      Len(finalLines), <<>>, <<>>))
    IN  [s2 EXCEPT !.ret = cardHeight]

\* the layout state held in the variables, with an empty call record
Now == [y |-> y, page |-> page, numPages |-> numPages, font |-> font,
        doc |-> doc, cpb |-> <<>>, ret |-> FALSE]

\* the variables after a step that ends in layout state s
Becomes(end) ==
    \E s \in {end} :
        /\ y' = s.y
        /\ page' = s.page
        /\ numPages' = s.numPages
        /\ font' = s.font
        /\ doc' = s.doc
        /\ cpb' = s.cpb

-----------------------------------------------------------------------------
(* The records the export is run on                                         *)

MaxBullets == 2
MaxDiffs == 7
MaxObjections == 3
MaxTestimonials == 2
LongAnswerWords == 40
LongOverviewWords == 40

Short == Str(<<wRisk>>)
Medium == Str(Rep(3, wVuln))
LongOverview == Str(Rep(LongOverviewWords, wUrl))
LongAnswer == Str(Rep(LongAnswerWords, wLong))
LongQuote == Str(Rep(8, wLong))

Bullets(n) == [k \in 1..n |-> IF k % 2 = 1 THEN Short ELSE Medium]
DiffItems(n) == [k \in 1..n |-> Str(Rep(((k * 2) % 5) + 1, wVuln))]
Objections(n, longAt) ==
    [k \in 1..n |-> [objection |-> IF k % 2 = 1 THEN Medium ELSE Short,
                     response |-> IF k = longAt THEN LongAnswer ELSE Short]]
Testimonials(n) ==
    [k \in 1..n |-> [company |-> <<wRisk>>,
                     quote |-> IF k % 2 = 1 THEN Medium ELSE LongQuote]]

Title == <<"Q", "3", " ", "v", "s", ".", "X">>

Record(has, ov, nS, nW, nD, nO, longAt, pq, nT) ==
    [title |-> Title, has |-> has, overview |-> ov,
     strengths |-> Bullets(nS), weaknesses |-> Bullets(nW),
     differentiators |-> DiffItems(nD),
     objections |-> Objections(nO, longAt),
     pricing |-> IF pq THEN Medium ELSE EmptyStr,
     questions |-> IF pq THEN Bullets(MaxBullets) ELSE <<>>,
     testimonials |-> Testimonials(nT)]

\* overview and the lengths of strengths, weaknesses and testimonials
Heads == {<<EmptyStr, 0, 0, 0>>,
          <<Short, MaxBullets - 1, MaxBullets, MaxTestimonials>>,
          <<LongOverview, MaxBullets - 1, MaxBullets, MaxTestimonials - 1>>}

\* records with every field present
FullRecords ==
    { Record(Fields, hd[1], hd[2], hd[3], nD, nO, IF long THEN nO ELSE 0,
             hd[4] > 0, hd[4]) :
        hd \in Heads, nD \in 0..MaxDiffs, nO \in 0..MaxObjections,
        long \in BOOLEAN }

\* records with one field absent (undefined)
PartialRecords ==
    { Record(Fields \ {fld}, ov, n, n, 2 * n, n, n, pq, n) :
        fld \in Fields, ov \in {EmptyStr, Short}, n \in 0..1, pq \in BOOLEAN }

Records == FullRecords \cup PartialRecords

Sections == {"overview", "differentiators"}

-----------------------------------------------------------------------------
(* ExportStep and exportProfessionalPDF                                     *)

InitPdf ==
    /\ pc = "idle"
    /\ y = 0
    /\ page = 1
    /\ numPages = 1
    /\ font = [size |-> 16, style |-> "normal"]
    /\ doc = <<>>
    /\ cpb = <<>>
    /\ maxDiffHeight = 0
    /\ i = 0
    /\ totalPages = 0
    /\ footers = <<>>
    /\ saved = <<>>
    /\ toasts = <<>>

InitUi ==
    /\ copied = FALSE
    /\ copyTimers = 0
    /\ expandedSections = {"overview"}
    /\ downloads = <<>>

\* exportToPDF up to the call of exportProfessionalPDF, and that call up to
\* let y = 0: a new jsPDF document of one page
ExportToPDF ==
    /\ pc \in {"idle", "done"}
    /\ pc' = "banner"
    /\ y' = 0
    /\ page' = 1
    /\ numPages' = 1
    /\ font' = [size |-> 16, style |-> "normal"]
    /\ doc' = <<>>
    /\ cpb' = <<>>
    /\ maxDiffHeight' = 0
    /\ i' = 0
    /\ totalPages' = 0
    /\ footers' = <<>>
    /\ saved' = <<>>
    /\ toasts' = <<>>
    /\ UNCHANGED <<wizVars, lamVars, battleCard, uiVars, genVars>>

\* a banner step that leaves the cursor where the layout started
DrawBannerKeepsCursor ==
    /\ pc = "banner"
    /\ LET s1 == Draw(Now, Op("banner", "title", page, 0, headerHeight, 0, 0,
                              1, <<>>, <<>>))
           s2 == SetFont(s1, 9, "normal")
       IN  Becomes(s2)
    /\ pc' = "overview"
    /\ UNCHANGED <<wizVars, lamVars, battleCard, maxDiffHeight, i, totalPages,
                   footers, saved, toasts, uiVars, genVars>>

\* 1. Header Section
DrawBanner ==
    /\ pc = "banner"
    /\ LET s1 == Draw(Now, Op("banner", "title", page, 0, headerHeight, 0, 0,
                              1, <<>>, <<>>))
           s2 == SetFont(s1, 9, "normal")
       IN  Becomes([s2 EXCEPT !.y = headerHeight + 10])
    /\ pc' = "overview"
    /\ UNCHANGED <<wizVars, lamVars, battleCard, maxDiffHeight, i, totalPages,
                   footers, saved, toasts, uiVars, genVars>>

\* an overview step that goes on with the grid, leaving the pair out
DrawOverviewThenGrid ==
    /\ pc = "overview"
    /\ LET s1 == drawSectionHeader(Now, "Executive Overview")
           s2 == drawCard(s1, margin, s1.y, contentWidth, "At a Glance",
                          Content(battleCard, "overview"), FALSE)
       IN  Becomes([s2 EXCEPT !.y = s1.y + s2.ret + 10])
    /\ pc' = "diffHeader"
    /\ UNCHANGED <<wizVars, lamVars, battleCard, maxDiffHeight, i, totalPages,
                   footers, saved, toasts, uiVars, genVars>>

\* 2. Executive Overview
DrawOverview ==
    /\ pc = "overview"
    /\ LET s1 == drawSectionHeader(Now, "Executive Overview")
           s2 == drawCard(s1, margin, s1.y, contentWidth, "At a Glance",
                          Content(battleCard, "overview"), FALSE)
       IN  Becomes([s2 EXCEPT !.y = s1.y + s2.ret + 10])
    /\ pc' = "headToHead"
    /\ UNCHANGED <<wizVars, lamVars, battleCard, maxDiffHeight, i, totalPages,
                   footers, saved, toasts, uiVars, genVars>>

\* a Head-to-Head step that writes the bulleted items back into the record
DrawHeadToHeadInPlace ==
    /\ pc = "headToHead"
    /\ LET s1 == drawSectionHeader(Now, "Head-to-Head Comparison")
           s2 == drawCard(s1, margin, s1.y, colWidth, "Tuskira Strengths",
                          Content(battleCard, "strengths"), TRUE)
           s3 == drawCard(s2, margin + colWidth + 10, s1.y, colWidth,
                          "Competitor Weaknesses",
                          Content(battleCard, "weaknesses"), TRUE)
       IN  Becomes([s3 EXCEPT !.y = s1.y + Max(s2.ret, s3.ret) + 12])
    /\ battleCard' =
           [battleCard EXCEPT !.strengths =
                [k \in DOMAIN @ |-> <<(<<wBullet, wNone>> \o @[k][1])>>]]
    /\ pc' = "diffHeader"
    /\ UNCHANGED <<wizVars, lamVars, maxDiffHeight, i, totalPages, footers,
                   saved, toasts, uiVars, genVars>>

\* 3. Head-to-Head
DrawHeadToHead ==
    /\ pc = "headToHead"
    /\ LET s1 == drawSectionHeader(Now, "Head-to-Head Comparison")
           s2 == drawCard(s1, margin, s1.y, colWidth, "Tuskira Strengths",
                          Content(battleCard, "strengths"), TRUE)
           s3 == drawCard(s2, margin + colWidth + 10, s1.y, colWidth,
                          "Competitor Weaknesses",
                          Content(battleCard, "weaknesses"), TRUE)
       IN  Becomes([s3 EXCEPT !.y = s1.y + Max(s2.ret, s3.ret) + 12])
    /\ pc' = "diffHeader"
    /\ UNCHANGED <<wizVars, lamVars, battleCard, maxDiffHeight, i, totalPages,
                   footers, saved, toasts, uiVars, genVars>>

\* the height loop without its comparison: the last item's height wins
RECURSIVE MaxHeightOverLast(_, _, _, _)
MaxHeightOverLast(diffs, k, acc, f) ==
    IF k > Len(diffs) THEN acc
    ELSE LET lines == splitTextToSize(diffs[k], diffCardWidth3 - 24, f)
         IN  MaxHeightOverLast(diffs, k + 1, 20 + (Len(lines) * 5), f)

\* A. Calculate Max Height for Uniformity
RECURSIVE MaxHeightOver(_, _, _, _)
MaxHeightOver(diffs, k, acc, f) ==
    IF k > Len(diffs) THEN acc
    ELSE LET lines == splitTextToSize(diffs[k], diffCardWidth3 - 24, f)
             h == 20 + (Len(lines) * 5)
         IN  MaxHeightOver(diffs, k + 1, IF h > acc THEN h ELSE acc, f)

\* 4. Key Differentiators: the header and the height of the cards; forEach
\* of an absent list throws
DiffHeader ==
    /\ pc = "diffHeader"
    /\ LET s1 == CallCheckPageBreak(Now, 60)
           s2 == drawSectionHeader(s1, "Key Differentiators")
       IN  /\ Becomes(s2)
           /\ IF "differentiators" \in battleCard.has
              THEN /\ maxDiffHeight' =
                          MaxHeightOver(battleCard.differentiators, 1, 0,
                                        s2.font)
                   /\ pc' = "diffGrid"
              ELSE /\ maxDiffHeight' = 0
                   /\ pc' = "threw"
    /\ i' = 0
    /\ UNCHANGED <<wizVars, lamVars, battleCard, totalPages, footers, saved,
                   toasts, uiVars, genVars>>

\* B. Draw Grid: the card of differentiators[i] (i counts from 0)
DrawDiffCard ==
    /\ pc = "diffGrid"
    /\ i < Len(battleCard.differentiators)
    /\ LET colIndex == i % diffCols
           s1 == IF colIndex = 0 /\ i > 0
                 THEN CallCheckPageBreak(
                          [Now EXCEPT !.y = y + maxDiffHeight + diffGap],
                          maxDiffHeight + 20)
                 ELSE Now
           xPos3 == (3 * margin) + (colIndex * (diffCardWidth3 + 3 * diffGap))
           s2 == SetFont(s1, 9, "normal")
           lines == splitTextToSize(battleCard.differentiators[i + 1],
                                    diffCardWidth3 - 24, s2.font)
       IN  Becomes(Draw(s2, Op("diffCard", "Key Differentiators", s1.page,
                               s1.y, maxDiffHeight, i + 1, xPos3, Len(lines),
                               <<>>, <<>>)))
    /\ i' = i + 1
    /\ UNCHANGED <<wizVars, lamVars, battleCard, pc, maxDiffHeight,
                   totalPages, footers, saved, toasts, uiVars, genVars>>

\* the column header row redrawn without the marker
TableHeaderNoMarker(s, cont) ==
    LET s1 == Draw(SetFont(s, 8, "bold"),
                   Op("tableHeader", "RISK SIGNAL", s.page, s.y, 8, 0,
                      3 * margin, 1, <<>>, <<>>))
    IN  [s1 EXCEPT !.y = s.y + 8]

\* the column header row of the objections table
TableHeader(s, cont) ==
    LET s1 == Draw(SetFont(s, 8, "bold"),
                   Op("tableHeader", IF cont THEN "RISK SIGNAL (CONT.)"
                                     ELSE "RISK SIGNAL",
                      s.page, s.y, 8, 0, 3 * margin, 1, <<>>, <<>>))
    IN  [s1 EXCEPT !.y = s.y + 8]

\* 5. Objection Handling: the end of the grid, the header and the column
\* header row; forEach of an absent list throws
ObjHeader ==
    /\ pc = "diffGrid"
    /\ i = Len(battleCard.differentiators)
    /\ LET s1 == CallCheckPageBreak([Now EXCEPT !.y = y + maxDiffHeight + 15],
                                    60)
           s2 == drawSectionHeader(s1, "Objection Handling")
       IN  Becomes(TableHeader(s2, FALSE))
    /\ pc' = IF "objections" \in battleCard.has THEN "objRows" ELSE "threw"
    /\ i' = 0
    /\ UNCHANGED <<wizVars, lamVars, battleCard, maxDiffHeight, totalPages,
                   footers, saved, toasts, uiVars, genVars>>

\* Rows: the row of objections[i]
DrawObjRow ==
    /\ pc = "objRows"
    /\ i < Len(battleCard.objections)
    /\ LET obj == battleCard.objections[i + 1]
           s1 == SetFontSize(Now, 9)
           qLines == splitTextToSize(obj.objection, 3 * col1Width - 18, s1.font)
           aLines == splitTextToSize(obj.response, 3 * col2Width - 18, s1.font)
           rowHeight == Max(Len(qLines), Len(aLines)) * 5 + 10
           s2 == CallCheckPageBreak(s1, rowHeight)
           s3 == IF s2.ret THEN TableHeader(s2, TRUE) ELSE s2
           s4 == Draw(SetFontStyle(s3, "normal"),
                      Op("row", "Objection Handling", s3.page, s3.y, rowHeight,
                         i + 1, 3 * margin, Max(Len(qLines), Len(aLines)),
                         qLines, aLines))
       IN  Becomes([s4 EXCEPT !.y = s3.y + rowHeight])
    /\ i' = i + 1
    /\ UNCHANGED <<wizVars, lamVars, battleCard, pc, maxDiffHeight,
                   totalPages, footers, saved, toasts, uiVars, genVars>>

\* a pricing step whose cursor advances by both card heights
DrawPricingDiscoveryStacked ==
    /\ pc = "objRows"
    /\ i = Len(battleCard.objections)
    /\ LET s1 == CallCheckPageBreak([Now EXCEPT !.y = y + 10], 50)
           rowTop == s1.y
           s2 == drawSectionHeader(s1, "Pricing Model")
           s3 == drawCard(s2, margin, s2.y, colWidth, "Pricing",
                          Content(battleCard, "pricing"), FALSE)
           discHeaderX == margin + colWidth + 10
           discHeaderY == rowTop + 5
           s4 == Draw(SetFont(s3, 14, "bold"),
                      Op("sectionHeader", "Discovery Questions", s3.page,
                         discHeaderY, 8, 0, 3 * discHeaderX, 1, <<>>, <<>>))
           s5 == drawCard(s4, margin + colWidth + 10, s2.y, colWidth,
                          "Ask This", Content(battleCard, "questions"), TRUE)
       IN  Becomes([s5 EXCEPT !.y = s2.y + s3.ret + s5.ret + 15])
    /\ pc' = "testHeader"
    /\ UNCHANGED <<wizVars, lamVars, battleCard, maxDiffHeight, i, totalPages,
                   footers, saved, toasts, uiVars, genVars>>

\* rowTop read before checkPageBreak(50)
DrawPricingDiscoveryEarlyTop ==
    /\ pc = "objRows"
    /\ i = Len(battleCard.objections)
    /\ LET s1 == CallCheckPageBreak([Now EXCEPT !.y = y + 10], 50)
           rowTop == y + 10
           s2 == drawSectionHeader(s1, "Pricing Model")
           s3 == drawCard(s2, margin, s2.y, colWidth, "Pricing",
                          Content(battleCard, "pricing"), FALSE)
           discHeaderX == margin + colWidth + 10
           discHeaderY == rowTop + 5
           s4 == Draw(SetFont(s3, 14, "bold"),
                      Op("sectionHeader", "Discovery Questions", s3.page,
                         discHeaderY, 8, 0, 3 * discHeaderX, 1, <<>>, <<>>))
           s5 == drawCard(s4, margin + colWidth + 10, s2.y, colWidth,
                          "Ask This", Content(battleCard, "questions"), TRUE)
       IN  Becomes([s5 EXCEPT !.y = s2.y + Max(s3.ret, s5.ret) + 15])
    /\ pc' = "testHeader"
    /\ UNCHANGED <<wizVars, lamVars, battleCard, maxDiffHeight, i, totalPages,
                   footers, saved, toasts, uiVars, genVars>>

\* 6. Pricing & Discovery
DrawPricingDiscovery ==
    /\ pc = "objRows"
    /\ i = Len(battleCard.objections)
    /\ LET s1 == CallCheckPageBreak([Now EXCEPT !.y = y + 10], 50)
           rowTop == s1.y
           s2 == drawSectionHeader(s1, "Pricing Model")
           s3 == drawCard(s2, margin, s2.y, colWidth, "Pricing",
                          Content(battleCard, "pricing"), FALSE)
           discHeaderX == margin + colWidth + 10
           discHeaderY == rowTop + 5
           s4 == Draw(SetFont(s3, 14, "bold"),
                      Op("sectionHeader", "Discovery Questions", s3.page,
                         discHeaderY, 8, 0, 3 * discHeaderX, 1, <<>>, <<>>))
           s5 == drawCard(s4, margin + colWidth + 10, s2.y, colWidth,
                          "Ask This", Content(battleCard, "questions"), TRUE)
       IN  Becomes([s5 EXCEPT !.y = s2.y + Max(s3.ret, s5.ret) + 15])
    /\ pc' = "testHeader"
    /\ UNCHANGED <<wizVars, lamVars, battleCard, maxDiffHeight, i, totalPages,
                   footers, saved, toasts, uiVars, genVars>>

\* 7. Testimonials: the header; forEach of an absent list throws
TestimonialsHeader ==
    /\ pc = "testHeader"
    /\ LET s1 == CallCheckPageBreak(Now, 40)
       IN  Becomes(drawSectionHeader(s1, "Customer Testimonies"))
    /\ pc' = IF "testimonials" \in battleCard.has THEN "testimonials"
             ELSE "threw"
    /\ i' = 0
    /\ UNCHANGED <<wizVars, lamVars, battleCard, maxDiffHeight, totalPages,
                   footers, saved, toasts, uiVars, genVars>>

\* the box of testimonials[i]
DrawTestimonial ==
    /\ pc = "testimonials"
    /\ i < Len(battleCard.testimonials)
    /\ LET t == battleCard.testimonials[i + 1]
           s1 == SetFont(Now, 9, "italic")
           quoteMaxWidth == contentWidth - 20
           quoteLines == splitTextToSize(t.quote, 3 * quoteMaxWidth, s1.font)
           textBlockHeight == Len(quoteLines) * lineHeight
           testimonialBoxHeight == textBlockHeight + 18
           s2 == CallCheckPageBreak(s1, testimonialBoxHeight + 5)
           s3 == Draw(SetFont(s2, 8, "bold"),
                      Op("testimonial", "Customer Testimonies", s2.page, s2.y,
                         testimonialBoxHeight, i + 1, 3 * margin,
                         Len(quoteLines), <<>>, <<>>))
       IN  Becomes([s3 EXCEPT !.y = s2.y + testimonialBoxHeight + 4])
    /\ i' = i + 1
    /\ UNCHANGED <<wizVars, lamVars, battleCard, pc, maxDiffHeight,
                   totalPages, footers, saved, toasts, uiVars, genVars>>

\* a footer pass that begins while testimonials are still to be drawn
FooterBeginEarly ==
    /\ pc = "testimonials"
    /\ totalPages' = numPages
    /\ i' = 1
    /\ pc' = "footer"
    /\ cpb' = <<>>
    /\ UNCHANGED <<wizVars, lamVars, battleCard, y, page, numPages, font, doc,
                   maxDiffHeight, footers, saved, toasts, uiVars, genVars>>

\* FOOTER / PAGE NUMBERS: const totalPages = pdf.getNumberOfPages()
FooterBegin ==
    /\ pc = "testimonials"
    /\ i = Len(battleCard.testimonials)
    /\ totalPages' = numPages
    /\ i' = 1
    /\ pc' = "footer"
    /\ cpb' = <<>>
    /\ UNCHANGED <<wizVars, lamVars, battleCard, y, page, numPages, font, doc,
                   maxDiffHeight, footers, saved, toasts, uiVars, genVars>>

\* a turn of the footer loop without pdf.setPage(i)
FooterStampNoSetPage ==
    /\ pc = "footer"
    /\ i <= totalPages
    /\ page' = page
    /\ font' = [font EXCEPT !.size = 8]
    /\ footers' = Append(footers, [page |-> page', i |-> i, of |-> totalPages])
    /\ i' = i + 1
    /\ cpb' = <<>>
    /\ UNCHANGED <<wizVars, lamVars, battleCard, pc, y, numPages, doc,
                   maxDiffHeight, totalPages, saved, toasts, uiVars, genVars>>

\* one turn of the footer loop: pdf.setPage(i) and the two footer texts
FooterStamp ==
    /\ pc = "footer"
    /\ i <= totalPages
    /\ page' = i
    /\ font' = [font EXCEPT !.size = 8]
    /\ footers' = Append(footers, [page |-> page', i |-> i, of |-> totalPages])
    /\ i' = i + 1
    /\ cpb' = <<>>
    /\ UNCHANGED <<wizVars, lamVars, battleCard, pc, y, numPages, doc,
                   maxDiffHeight, totalPages, saved, toasts, uiVars, genVars>>

AlnumChars ==
    {"a", "b", "c", "d", "e", "f", "g", "h", "i", "j", "k", "l", "m", "n",
     "o", "p", "q", "r", "s", "t", "u", "v", "w", "x", "y", "z",
     "A", "B", "C", "D", "E", "F", "G", "H", "I", "J", "K", "L", "M", "N",
     "O", "P", "Q", "R", "S", "T", "U", "V", "W", "X", "Y", "Z",
     "0", "1", "2", "3", "4", "5", "6", "7", "8", "9"}

\* a file name that keeps every character of the title
FileNameVerbatim(title) ==
    <<"BattleCard_">> \o title \o <<".pdf">>

\* `BattleCard_${battleCard.title.replace(/[^a-z0-9]/gi, '_')}.pdf`
FileName(title) ==
    <<"BattleCard_">>
    \o [k \in 1..Len(title) |-> IF title[k] \in AlnumChars THEN title[k]
                                ELSE "_"]
    \o <<".pdf">>

\* Save
Save ==
    /\ pc = "footer"
    /\ i > totalPages
    /\ saved' = Append(saved, FileName(battleCard.title))
    /\ pc' = "returned"
    /\ cpb' = <<>>
    /\ UNCHANGED <<wizVars, lamVars, battleCard, y, page, numPages, font, doc,
                   maxDiffHeight, i, totalPages, footers, toasts, uiVars,
                   genVars>>

\* exportToPDF after exportProfessionalPDF returned
ExportSucceeded ==
    /\ pc = "returned"
    /\ toasts' = Append(toasts, "Success")
    /\ pc' = "done"
    /\ cpb' = <<>>
    /\ UNCHANGED <<wizVars, lamVars, battleCard, y, page, numPages, font, doc,
                   maxDiffHeight, i, totalPages, footers, saved, uiVars,
                   genVars>>

\* a catch that falls through to the success notification
ExportFailedThenSuccess ==
    /\ pc = "threw"
    /\ toasts' = toasts \o <<"Error", "Success">>
    /\ pc' = "done"
    /\ cpb' = <<>>
    /\ UNCHANGED <<wizVars, lamVars, battleCard, y, page, numPages, font, doc,
                   maxDiffHeight, i, totalPages, footers, saved, uiVars,
                   genVars>>

\* exportToPDF's catch
ExportFailed ==
    /\ pc = "threw"
    /\ toasts' = Append(toasts, "Error")
    /\ pc' = "done"
    /\ cpb' = <<>>
    /\ UNCHANGED <<wizVars, lamVars, battleCard, y, page, numPages, font, doc,
                   maxDiffHeight, i, totalPages, footers, saved, uiVars,
                   genVars>>

MaxPendingTimers == 1

\* the handlers of ExportStep run between two export calls, never inside one
Quiet == pc \in {"idle", "done"}

toggleSection(section) ==
    /\ Quiet
    /\ expandedSections' = IF section \in expandedSections
                           THEN expandedSections \ {section}
                           ELSE expandedSections \cup {section}
    /\ UNCHANGED <<wizVars, lamVars, battleCard, pdfVars, copied, copyTimers,
                   downloads, genVars>>

\* copyLink with the clipboard write fulfilled (a rejected write shows a toast
\* and changes no state)
copyLink ==
    /\ Quiet
    /\ copyTimers < MaxPendingTimers
    /\ copied' = TRUE
    /\ copyTimers' = copyTimers + 1
    /\ UNCHANGED <<wizVars, lamVars, battleCard, pdfVars, expandedSections,
                   downloads, genVars>>

\* setTimeout(() => setCopied(false), 2000) fires
CopyTimeout ==
    /\ Quiet
    /\ copyTimers > 0
    /\ copied' = FALSE
    /\ copyTimers' = copyTimers - 1
    /\ UNCHANGED <<wizVars, lamVars, battleCard, pdfVars, expandedSections,
                   downloads, genVars>>

\* the wizard page outside the step under study
InitWizardOff ==
    /\ wizardStep = "export"
    /\ completedSteps = <<>>
    /\ battleCardData = [competitors |-> <<>>, useCase |-> "null",
                         documents |-> <<>>]
    /\ generatedBattleCard = <<[id |-> "card"]>>
    /\ validationTimers = <<>>
    /\ nextId = 1

\* no request at the Lambda function
InitLambdaOff ==
    /\ lpc = "idle"
    /\ event = [body |-> <<>>, sub |-> <<>>]
    /\ invoked = <<>>
    /\ stored = <<>>
    /\ response = <<>>

\* GenerateStep not mounted
InitGenerateStepOff ==
    /\ gpc = "off"
    /\ data = [competitors |-> <<>>, useCase |-> "null", documents |-> <<>>]
    /\ gi = 0
    /\ competitorAnalyses = <<>>
    /\ processedDocuments = <<>>
    /\ outstanding = 0
    /\ request = <<>>
    /\ currentStep = 0
    /\ isComplete = FALSE
    /\ error = <<>>
    /\ genCard = <<>>
    /\ gtoasts = <<>>
    /\ calls = <<>>
    /\ attempt = 0

InitGenOff ==
    /\ InitWizardOff
    /\ InitLambdaOff
    /\ InitGenerateStepOff

InitExport ==
    /\ battleCard \in Records
    /\ InitPdf
    /\ InitUi
    /\ InitGenOff

NextExport ==
    \/ ExportToPDF
    \/ DrawBanner
    \/ DrawOverview
    \/ DrawHeadToHead
    \/ DiffHeader
    \/ DrawDiffCard
    \/ ObjHeader
    \/ DrawObjRow
    \/ DrawPricingDiscovery
    \/ TestimonialsHeader
    \/ DrawTestimonial
    \/ FooterBegin
    \/ FooterStamp
    \/ Save
    \/ ExportSucceeded
    \/ ExportFailed
    \/ \E section \in Sections : toggleSection(section)
    \/ copyLink
    \/ CopyTimeout

SpecExport == InitExport /\ [][NextExport]_vars

\* The export of records whose objections hold words wider than a column.
MaxChain == 80
WrapTexts ==
    {Str(<<wRisk>>), Str(Rep(6, wVuln)), Str(<<Chain(MaxChain)>>),
     Str(<<wRisk, Chain(MaxChain \div 2), wVuln>>),
     Str(<<wVuln, wVuln, Chain(MaxChain), wRisk>>)}

WrapRecords ==
    { [r EXCEPT !.objections = <<[objection |-> q, response |-> a],
                                 [objection |-> a, response |-> q]>>] :
        r \in {Record(Fields, Short, 1, 1, 1, 0, 0, TRUE, 1),
                Record(Fields \ {"testimonials"}, Short, 1, 1, 1, 0, 0, TRUE,
                       1)},
        q \in WrapTexts, a \in WrapTexts }

InitWrap ==
    /\ battleCard \in WrapRecords
    /\ InitPdf
    /\ InitUi
    /\ InitGenOff

SpecWrap == InitWrap /\ [][NextExport]_vars

\* The export of records that differ in their title only.  "eacute" stands
\* for a letter outside ASCII, which /[^a-z0-9]/gi matches.
MaxTitleLen == 2
TitleChars == {"a", "Z", "9", "_", "eacute"}
Titles == UNION {[1..n -> TitleChars] : n \in 0..MaxTitleLen}

TitledRecords ==
    { [r EXCEPT !.title = t] :
        r \in {Record(Fields, Short, 1, 1, 1, 1, 0, TRUE, 1),
                Record(Fields \ {"testimonials"}, Short, 1, 1, 1, 1, 0, TRUE,
                       1)},
        t \in Titles }

InitTitles ==
    /\ battleCard \in TitledRecords
    /\ InitPdf
    /\ InitUi
    /\ InitGenOff

SpecTitles == InitTitles /\ [][NextExport]_vars

-----------------------------------------------------------------------------
(* ExportStep.exportToJSON: JSON.stringify(battleCard, null, 2) handed to    *)
(* the browser as a download.  Here a text is a sequence of characters;     *)
(* "DQ" is the double quote, "BS" the backslash, "LF" the line feed and      *)
(* "SP" the space.  A property name is kept as one character, since no name *)
(* of BattleCardContent needs escaping.                                     *)

MaxItems == 2
MaxDownloads == 1

\* the properties of BattleCardContent, in the order of the interface
JsonFields == <<"id", "title", "overview", "differentiators", "strengths",
                "weaknesses", "pricing", "objections", "questions",
                "testimonials", "generatedAt">>
JsonStringFields == {"id", "title", "overview", "pricing", "generatedAt"}
JsonListFields == {"differentiators", "strengths", "weaknesses", "questions"}

\* JavaScript values: strings, arrays, and objects with ordered properties
jStr(s) == [t |-> "string", s |-> s]
jArr(a) == [t |-> "array", a |-> a]
jObj(k, v) == [t |-> "object", k |-> k, v |-> v]
\* null, the numbers 0..3, the booleans, and undefined
jNull == [t |-> "null"]
jNum(n) == [t |-> "number", n |-> n]
jBool(b) == [t |-> "boolean", b |-> b]
undefined == [t |-> "undefined"]

\* the value of one property of the record
FieldValue(card, fld) ==
    CASE fld \in JsonStringFields -> jStr(card[fld])
      [] fld \in JsonListFields ->
            jArr([k \in 1..Len(card[fld]) |-> jStr(card[fld][k])])
      [] fld = "objections" ->
            jArr([k \in 1..Len(card[fld]) |->
                     jObj(<<"objection", "response">>,
                          <<jStr(card[fld][k].objection),
                            jStr(card[fld][k].response)>>)])
      [] fld = "testimonials" ->
            jArr([k \in 1..Len(card[fld]) |->
                     jObj(<<"company", "quote">>,
                          <<jStr(card[fld][k].company),
                            jStr(card[fld][k].quote)>>)])

\* the record as JSON.stringify sees it: its own properties that are not
\* undefined
JsValue(card) ==
    LET keys == SelectSeq(JsonFields, LAMBDA fld : fld \in card.has)
    IN  jObj(keys, [k \in 1..Len(keys) |-> FieldValue(card, keys[k])])

\* a string written out with no escapes
RECURSIVE QuoteRaw(_)
QuoteRaw(s) ==
    IF s = <<>> THEN <<>> ELSE <<Head(s)>> \o QuoteRaw(Tail(s))

\* QuoteJSONString: the characters of a string between its quotes
RECURSIVE Quote(_)
Quote(s) ==
    IF s = <<>> THEN <<>>
    ELSE (CASE Head(s) = "DQ" -> <<"BS", "DQ">>
            [] Head(s) = "BS" -> <<"BS", "BS">>
            [] Head(s) = "LF" -> <<"BS", "n">>
            [] OTHER -> <<Head(s)>>)
         \o Quote(Tail(s))

\* a line feed and the indentation of depth d (space = 2)
Indent(d) == <<"LF">> \o [k \in 1..(2 * d) |-> "SP"]

RECURSIVE Serialize(_, _), SerializeItems(_, _, _), SerializeMembers(_, _, _)
Serialize(v, d) ==
    CASE v.t = "string" -> <<"DQ">> \o Quote(v.s) \o <<"DQ">>
      [] v.t = "array" ->
            IF v.a = <<>> THEN <<"[", "]">>
            ELSE <<"[">> \o SerializeItems(v.a, 1, d + 1) \o Indent(d)
                 \o <<"]">>
      [] v.t = "object" ->
            IF v.k = <<>> THEN <<"{", "}">>
            ELSE <<"{">> \o SerializeMembers(v, 1, d + 1) \o Indent(d)
                 \o <<"}">>

SerializeItems(a, k, d) ==
    IF k > Len(a) THEN <<>>
    ELSE Indent(d) \o Serialize(a[k], d)
         \o (IF k < Len(a) THEN <<",">> ELSE <<>>)
         \o SerializeItems(a, k + 1, d)

SerializeMembers(o, k, d) ==
    IF k > Len(o.k) THEN <<>>
    ELSE Indent(d) \o <<"DQ", o.k[k], "DQ", ":", "SP">>
         \o Serialize(o.v[k], d)
         \o (IF k < Len(o.k) THEN <<",">> ELSE <<>>)
         \o SerializeMembers(o, k + 1, d)

JSONstringify(v) == Serialize(v, 0)

\* the digit of a number 0..3
Digit(k) == <<"0", "1", "2", "3">>[k + 1]

\* JSON.parse: ok with the value read and the position after it, or a
\* SyntaxError
SyntaxError == [ok |-> FALSE, v |-> <<>>, p |-> 0]
Parsed(v, p) == [ok |-> TRUE, v |-> v, p |-> p]
WhiteSpace == {"LF", "SP"}
At(txt, p) == IF p <= Len(txt) THEN txt[p] ELSE "EOF"
Skip(txt, p) ==
    CHOOSE q \in p..(Len(txt) + 1) :
        /\ \A r \in p..(q - 1) : txt[r] \in WhiteSpace
        /\ q = Len(txt) + 1 \/ txt[q] \notin WhiteSpace

\* the characters after an opening quote, up to the closing one
RECURSIVE ScanString(_, _, _)
ScanString(txt, p, acc) ==
    LET c == At(txt, p)
        e == At(txt, p + 1)
    IN  CASE c = "DQ" -> Parsed(jStr(acc), p + 1)
          [] c \in {"EOF", "LF"} -> SyntaxError
          [] c = "BS" ->
                (CASE e = "DQ" -> ScanString(txt, p + 2, Append(acc, "DQ"))
                   [] e = "BS" -> ScanString(txt, p + 2, Append(acc, "BS"))
                   [] e = "n" -> ScanString(txt, p + 2, Append(acc, "LF"))
                   [] OTHER -> SyntaxError)
          [] OTHER -> ScanString(txt, p + 1, Append(acc, c))

RECURSIVE ParseValue(_, _), ParseItems(_, _, _), ParseMembers(_, _, _, _)
ParseValue(txt, p) ==
    LET c == At(txt, p)
        q == Skip(txt, p + 1)
    IN  CASE c = "DQ" -> ScanString(txt, p + 1, <<>>)
          [] c = "[" -> IF At(txt, q) = "]" THEN Parsed(jArr(<<>>), q + 1)
                        ELSE ParseItems(txt, q, <<>>)
          [] c = "{" -> IF At(txt, q) = "}"
                        THEN Parsed(jObj(<<>>, <<>>), q + 1)
                        ELSE ParseMembers(txt, q, <<>>, <<>>)
          [] c = "null" -> Parsed(jNull, p + 1)
          [] c = "true" -> Parsed(jBool(TRUE), p + 1)
          [] c = "false" -> Parsed(jBool(FALSE), p + 1)
          [] c \in {"0", "1", "2", "3"} ->
                Parsed(jNum(CHOOSE n \in 0..3 : Digit(n) = c), p + 1)
          [] OTHER -> SyntaxError

ParseItems(txt, p, acc) ==
    LET r == ParseValue(txt, p)
        q == Skip(txt, r.p)
        c == At(txt, q)
    IN  IF ~r.ok THEN SyntaxError
        ELSE IF c = "," THEN ParseItems(txt, Skip(txt, q + 1),
                                        Append(acc, r.v))
        ELSE IF c = "]" THEN Parsed(jArr(Append(acc, r.v)), q + 1)
        ELSE SyntaxError

ParseMembers(txt, p, ks, vs) ==
    LET key == IF At(txt, p) = "DQ" THEN ScanString(txt, p + 1, <<>>)
               ELSE SyntaxError
        colon == Skip(txt, key.p)
        r == ParseValue(txt, Skip(txt, colon + 1))
        q == Skip(txt, r.p)
        c == At(txt, q)
        ks1 == Append(ks, key.v.s[1])
        vs1 == Append(vs, r.v)
    IN  IF ~key.ok \/ Len(key.v.s) # 1 \/ At(txt, colon) # ":"
        THEN SyntaxError
        ELSE IF ~r.ok THEN SyntaxError
        ELSE IF c = "," THEN ParseMembers(txt, Skip(txt, q + 1), ks1, vs1)
        ELSE IF c = "}" THEN Parsed(jObj(ks1, vs1), q + 1)
        ELSE SyntaxError

JSONparse(txt) ==
    LET r == ParseValue(txt, Skip(txt, 1))
    IN  IF r.ok /\ Skip(txt, r.p) = Len(txt) + 1 THEN r ELSE SyntaxError

\* strings with the characters JSON has to escape, and with its punctuation
JsonStrings ==
    {<<>>, <<"a">>, <<"DQ">>, <<"BS", "n">>, <<"a", "LF", "SP", "a">>,
     <<"[", ",", "DQ", "BS", "]">>, <<"{", "DQ", ":", "}", "BS">>}

JsonRecord(has, s, n) ==
    [has |-> has,
     id |-> <<"7">>,
     title |-> s,
     overview |-> s \o <<"a">>,
     differentiators |-> [k \in 1..n |-> s \o <<Digit(k)>>],
     strengths |-> [k \in 1..n |-> <<Digit(k)>> \o s],
     weaknesses |-> [k \in 1..(n \div 2) |-> s],
     pricing |-> <<"SP">> \o s,
     objections |-> [k \in 1..n |->
                        [objection |-> s, response |-> <<"r", Digit(k)>>]],
     questions |-> [k \in 1..n |-> <<"?">>],
     testimonials |-> [k \in 1..(n \div 2) |->
                          [company |-> <<"c">>, quote |-> s \o s]],
     generatedAt |-> <<"2", "0", "2", "6", "-", "1", "1", ":", "0">>]

AllJsonFields == {JsonFields[k] : k \in DOMAIN JsonFields}

\* records as response.json() of the generation service delivers them: every
\* property present, or one of them missing
JsonRecords ==
    { JsonRecord(has, s, n) :
        has \in {AllJsonFields} \cup {AllJsonFields \ {fld} : fld \in AllJsonFields},
        s \in JsonStrings, n \in 0..MaxItems }

exportToJSON ==
    /\ Quiet
    /\ Len(downloads) < MaxDownloads
    /\ LET dataStr == JSONstringify(JsValue(battleCard))
       IN  downloads' = Append(downloads,
                               [download |-> <<"battle-card-">>
                                   \o (IF "id" \in battleCard.has
                                       THEN battleCard.id ELSE <<"undefined">>)
                                   \o <<".json">>,
                                dataStr |-> dataStr])
    /\ toasts' = <<"JSON downloaded successfully!">>
    /\ UNCHANGED <<wizVars, lamVars, battleCard, pc, y, page, numPages, font,
                   doc, cpb, maxDiffHeight, i, totalPages, footers, saved,
                   copied, copyTimers, expandedSections, genVars>>

InitJson ==
    /\ battleCard \in JsonRecords
    /\ InitPdf
    /\ InitUi
    /\ InitGenOff

NextJson ==
    \/ exportToJSON
    \/ \E section \in Sections : toggleSection(section)
    \/ copyLink
    \/ CopyTimeout

SpecJson == InitJson /\ [][NextJson]_vars

-----------------------------------------------------------------------------
(* GenerateStep: generateBattleCardAsync, started by the mount effect and   *)
(* by Try Again.  A service call is an entry of calls, pending until the    *)
(* promise settles; analyzeCompetitor and generateBattleCard are async       *)
(* functions and may fulfil or reject.                                      *)

MaxCompetitors == 3
MaxDocuments == 1
MaxAttempts == 2

UseCases == {"null", "ctem", "ai-soc"}

\* a listed competitor whose URL validation is over
Competitor(k) == [id |-> k, url |-> k, isLoading |-> FALSE]
Analysis(url) == [url |-> url]
Document(k) == [id |-> k]
\* processedDocuments.push({ id: doc.id, ... })
Processed(d) == [id |-> d.id, summary |-> "Document processed"]
GeneratedCard == [id |-> "card"]

Call(fn, arg) == [fn |-> fn, arg |-> arg, state |-> "pending"]
Settle(cs, state) == [cs EXCEPT ![Len(cs)].state = state]

InitPdfOff ==
    /\ battleCard = Record(Fields, EmptyStr, 0, 0, 0, 0, 0, FALSE, 0)
    /\ InitPdf
    /\ InitUi

InitGen ==
    /\ InitPdfOff
    /\ gpc = "start"
    /\ \E n \in 1..MaxCompetitors, u \in UseCases, d \in 0..MaxDocuments :
           data = [competitors |-> [k \in 1..n |-> Competitor(k)],
                   useCase |-> u,
                   documents |-> [k \in 1..d |-> Document(k)]]
    /\ gi = 0
    /\ competitorAnalyses = <<>>
    /\ processedDocuments = <<>>
    /\ outstanding = 0
    /\ request = <<>>
    /\ currentStep = 0
    /\ isComplete = FALSE
    /\ error = <<>>
    /\ genCard = <<>>
    /\ gtoasts = <<>>
    /\ calls = <<>>
    /\ attempt = 0
    /\ wizardStep = "generate"
    /\ completedSteps = <<"competitors", "use-case", "documents", "customize">>
    /\ battleCardData = data
    /\ generatedBattleCard = <<>>
    /\ validationTimers = <<>>
    /\ nextId = 1
    /\ InitLambdaOff

\* the catch of generateBattleCardAsync
GenCatch(message) ==
    /\ error' = <<message>>
    /\ gtoasts' = Append(gtoasts, "Error")
    /\ gpc' = "failed"

\* generateBattleCardAsync up to the competitor loop
GenBegin ==
    /\ gpc = "start"
    /\ error' = <<>>
    /\ currentStep' = 0
    /\ competitorAnalyses' = <<>>
    /\ processedDocuments' = <<>>
    /\ request' = <<>>
    /\ gi' = 0
    /\ calls' = <<>>
    /\ gtoasts' = <<>>
    /\ attempt' = attempt + 1
    /\ data' = battleCardData
    /\ gpc' = "analyze"
    /\ UNCHANGED <<wizVars, lamVars, battleCard, pdfVars, uiVars, outstanding,
                   isComplete, genCard>>

\* analyzeCompetitor called without await: the loop goes on to the next
\* competitor with the promise pending
CallAnalyzeNoAwait ==
    /\ gpc = "analyze"
    /\ gi < Len(data.competitors)
    /\ calls' = Append(calls, Call("analyzeCompetitor",
                                   data.competitors[gi + 1].url))
    /\ outstanding' = outstanding + 1
    /\ gi' = gi + 1
    /\ UNCHANGED <<wizVars, lamVars, attempt, battleCard, pdfVars, uiVars,
                   data, gpc, competitorAnalyses, processedDocuments, request,
                   currentStep, isComplete, error, genCard, gtoasts>>

\* await analyzeCompetitor(competitor.url)
CallAnalyze ==
    /\ gpc = "analyze"
    /\ gi < Len(data.competitors)
    /\ calls' = Append(calls, Call("analyzeCompetitor",
                                   data.competitors[gi + 1].url))
    /\ outstanding' = outstanding + 1
    /\ gpc' = "awaitAnalyze"
    /\ UNCHANGED <<wizVars, lamVars, attempt, battleCard, pdfVars, uiVars,
                   data, gi, competitorAnalyses, processedDocuments, request,
                   currentStep, isComplete, error, genCard, gtoasts>>

\* competitorAnalyses.push(analysis)
AnalyzeFulfilled ==
    /\ gpc = "awaitAnalyze"
    /\ calls' = Settle(calls, "fulfilled")
    /\ outstanding' = outstanding - 1
    /\ competitorAnalyses' =
           Append(competitorAnalyses, Analysis(data.competitors[gi + 1].url))
    /\ gi' = gi + 1
    /\ gpc' = "analyze"
    /\ UNCHANGED <<wizVars, lamVars, attempt, battleCard, pdfVars, uiVars,
                   data, processedDocuments, request, currentStep, isComplete,
                   error, genCard, gtoasts>>

\* a competitor loop without its own catch: the rejection ends the run
AnalyzeRejectedAborts ==
    /\ gpc = "awaitAnalyze"
    /\ calls' = Settle(calls, "rejected")
    /\ outstanding' = outstanding - 1
    /\ error' = <<"analyzeCompetitor failed">>
    /\ gtoasts' = Append(gtoasts, "Error")
    /\ gpc' = "failed"
    /\ UNCHANGED <<wizVars, lamVars, attempt, battleCard, pdfVars, uiVars,
                   data, gi, competitorAnalyses, processedDocuments, request,
                   currentStep, isComplete, genCard>>

\* the catch inside the competitor loop
AnalyzeRejected ==
    /\ gpc = "awaitAnalyze"
    /\ calls' = Settle(calls, "rejected")
    /\ outstanding' = outstanding - 1
    /\ gtoasts' = Append(gtoasts, "Warning")
    /\ gi' = gi + 1
    /\ gpc' = "analyze"
    /\ UNCHANGED <<wizVars, lamVars, attempt, battleCard, pdfVars, uiVars,
                   data, competitorAnalyses, processedDocuments, request,
                   currentStep, isComplete, error, genCard>>

\* if (competitorAnalyses.length === 0) throw
NoCompetitorAnalyzed ==
    /\ gpc = "analyze"
    /\ gi = Len(data.competitors)
    /\ Len(competitorAnalyses) = 0
    /\ GenCatch("Failed to analyze any competitors")
    /\ UNCHANGED <<wizVars, lamVars, attempt, battleCard, pdfVars, uiVars,
                   data, gi, competitorAnalyses, processedDocuments,
                   outstanding, request, currentStep, isComplete, genCard,
                   calls>>

\* Step 2 and the start of Step 3, up to the first timer
ProcessDocuments ==
    /\ gpc = "analyze"
    /\ gi = Len(data.competitors)
    /\ Len(competitorAnalyses) # 0
    /\ processedDocuments' =
           [k \in 1..Len(data.documents) |-> Processed(data.documents[k])]
    /\ currentStep' = 2
    /\ gpc' = "extract"
    /\ UNCHANGED <<wizVars, lamVars, attempt, battleCard, pdfVars, uiVars,
                   data, gi, competitorAnalyses, outstanding, request,
                   isComplete, error, genCard, gtoasts, calls>>

\* generateBattleCard called with data.useCase as it is
CallGenerateNoDefault ==
    /\ gpc = "extract"
    /\ currentStep' = 3
    /\ request' = <<[competitors |-> competitorAnalyses,
                     useCase |-> data.useCase,
                     documents |-> processedDocuments]>>
    /\ calls' = Append(calls, Call("generateBattleCard", 0))
    /\ outstanding' = outstanding + 1
    /\ gpc' = "awaitGenerate"
    /\ UNCHANGED <<wizVars, lamVars, attempt, battleCard, pdfVars, uiVars,
                   data, gi, competitorAnalyses, processedDocuments,
                   isComplete, error, genCard, gtoasts>>

\* Step 4 & 5: await generateBattleCard({...})
CallGenerate ==
    /\ gpc = "extract"
    /\ currentStep' = 3
    /\ request' = <<[competitors |-> competitorAnalyses,
                     useCase |-> IF data.useCase = "null" THEN "general"
                                 ELSE data.useCase,
                     documents |-> processedDocuments]>>
    /\ calls' = Append(calls, Call("generateBattleCard", 0))
    /\ outstanding' = outstanding + 1
    /\ gpc' = "awaitGenerate"
    /\ UNCHANGED <<wizVars, lamVars, attempt, battleCard, pdfVars, uiVars,
                   data, gi, competitorAnalyses, processedDocuments,
                   isComplete, error, genCard, gtoasts>>

GenerateFulfilled ==
    /\ gpc = "awaitGenerate"
    /\ calls' = Settle(calls, "fulfilled")
    /\ outstanding' = outstanding - 1
    /\ currentStep' = 4
    /\ gpc' = "build"
    /\ UNCHANGED <<wizVars, lamVars, attempt, battleCard, pdfVars, uiVars,
                   data, gi, competitorAnalyses, processedDocuments, request,
                   isComplete, error, genCard, gtoasts>>

GenerateRejected ==
    /\ gpc = "awaitGenerate"
    /\ calls' = Settle(calls, "rejected")
    /\ outstanding' = outstanding - 1
    /\ GenCatch("Failed to generate battle card")
    /\ UNCHANGED <<wizVars, lamVars, attempt, battleCard, pdfVars, uiVars,
                   data, gi, competitorAnalyses, processedDocuments, request,
                   currentStep, isComplete, genCard>>

\* setBattleCard(generatedCard); setIsComplete(true)
GenFinish ==
    /\ gpc = "build"
    /\ genCard' = <<GeneratedCard>>
    /\ isComplete' = TRUE
    /\ gtoasts' = Append(gtoasts, "Success")
    /\ gpc' = "complete"
    /\ UNCHANGED <<wizVars, lamVars, attempt, battleCard, pdfVars, uiVars,
                   data, gi, competitorAnalyses, processedDocuments,
                   outstanding, request, currentStep, error, calls>>

\* a retry that resumes after the analyses the failed run kept
TryAgainResumes ==
    /\ gpc = "failed"
    /\ Len(error) > 0
    /\ attempt < MaxAttempts
    /\ error' = <<>>
    /\ currentStep' = 0
    /\ attempt' = attempt + 1
    /\ gpc' = IF Len(competitorAnalyses) > 0 THEN "extract" ELSE "analyze"
    /\ gi' = IF Len(competitorAnalyses) > 0 THEN gi ELSE 0
    /\ UNCHANGED <<wizVars, lamVars, battleCard, pdfVars, uiVars, data,
                   competitorAnalyses, processedDocuments, outstanding,
                   request, isComplete, genCard, gtoasts, calls>>

\* the Try Again button, shown while error is set
TryAgain ==
    /\ gpc = "failed"
    /\ Len(error) > 0
    /\ attempt < MaxAttempts
    /\ error' = <<>>
    /\ currentStep' = 0
    /\ gpc' = "start"
    /\ UNCHANGED <<wizVars, lamVars, attempt, battleCard, pdfVars, uiVars,
                   data, gi, competitorAnalyses, processedDocuments,
                   outstanding, request, isComplete, genCard, gtoasts, calls>>

NextGen ==
    \/ GenBegin
    \/ CallAnalyze
    \/ AnalyzeFulfilled
    \/ AnalyzeRejected
    \/ NoCompetitorAnalyzed
    \/ ProcessDocuments
    \/ CallGenerate
    \/ GenerateFulfilled
    \/ GenerateRejected
    \/ GenFinish
    \/ TryAgain

SpecGen == InitGen /\ [][NextGen]_vars

-----------------------------------------------------------------------------
(* Index: the wizard page.  The form (competitors, useCase, documents) is   *)
(* battleCardData; template and sections do not influence a step and are    *)
(* left out.  A step component is mounted while wizardStep names it.        *)

MaxAdds == 4
MaxPendingValidations == 2

stepOrder ==
    <<"competitors", "use-case", "documents", "customize", "generate",
      "export">>

\* stepOrder.indexOf(step), counted from 1
IndexOf(step) == CHOOSE k \in DOMAIN stepOrder : stepOrder[k] = step

\* [...new Set([...prev, step])]: the first occurrence of every element
RECURSIVE Distinct(_, _)
Distinct(seq, k) ==
    IF k > Len(seq) THEN <<>>
    ELSE IF \E j \in 1..(k - 1) : seq[j] = seq[k]
    THEN Distinct(seq, k + 1)
    ELSE <<seq[k]>> \o Distinct(seq, k + 1)

\* goToStep without the Set: the step left is appended every time
goToStepAppends(step) ==
    /\ completedSteps' =
           IF IndexOf(step) > IndexOf(wizardStep)
           THEN Append(completedSteps, wizardStep)
           ELSE completedSteps
    /\ wizardStep' = step

goToStep(step) ==
    /\ completedSteps' =
           IF IndexOf(step) > IndexOf(wizardStep)
           THEN Distinct(Append(completedSteps, wizardStep), 1)
           ELSE completedSteps
    /\ wizardStep' = step

goNext ==
    IF IndexOf(wizardStep) < Len(stepOrder)
    THEN goToStep(stepOrder[IndexOf(wizardStep) + 1])
    ELSE UNCHANGED <<wizardStep, completedSteps>>

goBack ==
    IF IndexOf(wizardStep) > 1
    THEN /\ wizardStep' = stepOrder[IndexOf(wizardStep) - 1]
         /\ UNCHANGED completedSteps
    ELSE UNCHANGED <<wizardStep, completedSteps>>

\* the state a GenerateStep is created with; its mount effect then calls
\* generateBattleCardAsync
MountGenerateStep ==
    /\ gpc' = "start"
    /\ data' = battleCardData
    /\ gi' = 0
    /\ competitorAnalyses' = <<>>
    /\ processedDocuments' = <<>>
    /\ outstanding' = 0
    /\ request' = <<>>
    /\ currentStep' = 0
    /\ isComplete' = FALSE
    /\ error' = <<>>
    /\ genCard' = <<>>
    /\ gtoasts' = <<>>
    /\ calls' = <<>>
    /\ attempt' = 0

\* the GenerateStep is destroyed with its state
UnmountGenerateStep ==
    /\ gpc' = "off"
    /\ data' = [competitors |-> <<>>, useCase |-> "null", documents |-> <<>>]
    /\ gi' = 0
    /\ competitorAnalyses' = <<>>
    /\ processedDocuments' = <<>>
    /\ outstanding' = 0
    /\ request' = <<>>
    /\ currentStep' = 0
    /\ isComplete' = FALSE
    /\ error' = <<>>
    /\ genCard' = <<>>
    /\ gtoasts' = <<>>
    /\ calls' = <<>>
    /\ attempt' = 0

competitors == battleCardData.competitors

\* CompetitorStep.addCompetitor with a non-blank input.  An input that does
\* not parse as a URL makes new URL(url) throw while the new competitor is
\* built, after its id was drawn: nothing is listed.
addCompetitor(valid) ==
    /\ wizardStep = "competitors"
    /\ Len(competitors) < MaxCompetitors
    /\ nextId <= MaxAdds
    /\ Len(validationTimers) < MaxPendingValidations
    /\ nextId' = nextId + 1
    /\ IF valid
       THEN LET newCompetitor == [id |-> nextId, url |-> nextId,
                                  isLoading |-> TRUE]
                updatedCompetitors == Append(competitors, newCompetitor)
            IN  /\ battleCardData' =
                       [battleCardData EXCEPT
                            !.competitors = updatedCompetitors]
                /\ validationTimers' =
                       Append(validationTimers,
                              [id |-> nextId,
                               updatedCompetitors |-> updatedCompetitors])
       ELSE UNCHANGED <<battleCardData, validationTimers>>
    /\ UNCHANGED <<battleCard, pdfVars, uiVars, genVars, lamVars, wizardStep,
                   completedSteps, generatedBattleCard>>

\* competitors.filter(c => c.id !== id)
Without(list, id) ==
    LET keep == {k \in DOMAIN list : list[k].id # id}
        nth(n) == CHOOSE k \in keep :
                      Cardinality({j \in keep : j <= k}) = n
    IN  [n \in 1..Cardinality(keep) |-> list[nth(n)]]

removeCompetitor(id) ==
    /\ wizardStep = "competitors"
    /\ \E k \in DOMAIN competitors : competitors[k].id = id
    /\ battleCardData' =
           [battleCardData EXCEPT !.competitors = Without(competitors, id)]
    /\ UNCHANGED <<battleCard, pdfVars, uiVars, genVars, lamVars, wizardStep,
                   completedSteps, generatedBattleCard, validationTimers,
                   nextId>>

\* The callback of setTimeout(..., 1500): the timers have one delay, so they
\* fire in the order they were set.  It hands onCompetitorsChange the list
\* addCompetitor built, with the new competitor's isLoading cleared.  The
\* mount effect of GenerateStep and the Try Again click call
\* generateBattleCardAsync in the task that set gpc to "start": no callback
\* runs in between.
ValidationTimeout ==
    /\ Len(validationTimers) > 0
    /\ gpc # "start"
    /\ LET t == Head(validationTimers)
       IN  battleCardData' =
               [battleCardData EXCEPT
                    !.competitors =
                        [k \in DOMAIN t.updatedCompetitors |->
                             IF t.updatedCompetitors[k].id = t.id
                             THEN [t.updatedCompetitors[k] EXCEPT
                                       !.isLoading = FALSE]
                             ELSE t.updatedCompetitors[k]]]
    /\ validationTimers' = Tail(validationTimers)
    /\ UNCHANGED <<battleCard, pdfVars, uiVars, genVars, lamVars, wizardStep,
                   completedSteps, generatedBattleCard, nextId>>

\* CompetitorStep's Continue with its guard removed
CompetitorsContinueAlways ==
    /\ wizardStep = "competitors"
    /\ goNext
    /\ UNCHANGED <<battleCard, pdfVars, uiVars, genVars, lamVars,
                   battleCardData, generatedBattleCard, validationTimers,
                   nextId>>

\* CompetitorStep's Continue, disabled while the list is empty or a
\* competitor is loading
CompetitorsContinue ==
    /\ wizardStep = "competitors"
    /\ Len(competitors) # 0
    /\ ~\E k \in DOMAIN competitors : competitors[k].isLoading
    /\ goNext
    /\ UNCHANGED <<battleCard, pdfVars, uiVars, genVars, lamVars,
                   battleCardData, generatedBattleCard, validationTimers,
                   nextId>>

\* UseCaseStep: onUseCaseChange(useCase.id)
selectUseCase(u) ==
    /\ wizardStep = "use-case"
    /\ battleCardData' = [battleCardData EXCEPT !.useCase = u]
    /\ UNCHANGED <<battleCard, pdfVars, uiVars, genVars, lamVars, wizardStep,
                   completedSteps, generatedBattleCard, validationTimers,
                   nextId>>

\* UseCaseStep's Continue, disabled while no use case is selected
UseCaseContinue ==
    /\ wizardStep = "use-case"
    /\ battleCardData.useCase # "null"
    /\ goNext
    /\ UNCHANGED <<battleCard, pdfVars, uiVars, genVars, lamVars,
                   battleCardData, generatedBattleCard, validationTimers,
                   nextId>>

\* DocumentStep.processFiles with one file of an accepted type
processFiles(id) ==
    /\ wizardStep = "documents"
    /\ ~\E k \in DOMAIN battleCardData.documents :
           battleCardData.documents[k].id = id
    /\ battleCardData' =
           [battleCardData EXCEPT !.documents = Append(@, Document(id))]
    /\ UNCHANGED <<battleCard, pdfVars, uiVars, genVars, lamVars, wizardStep,
                   completedSteps, generatedBattleCard, validationTimers,
                   nextId>>

removeDocument(id) ==
    /\ wizardStep = "documents"
    /\ \E k \in DOMAIN battleCardData.documents :
           battleCardData.documents[k].id = id
    /\ battleCardData' =
           [battleCardData EXCEPT !.documents = Without(@, id)]
    /\ UNCHANGED <<battleCard, pdfVars, uiVars, genVars, lamVars, wizardStep,
                   completedSteps, generatedBattleCard, validationTimers,
                   nextId>>

\* DocumentStep's Continue and Skip
DocumentsContinue ==
    /\ wizardStep = "documents"
    /\ goNext
    /\ UNCHANGED <<battleCard, pdfVars, uiVars, genVars, lamVars,
                   battleCardData, generatedBattleCard, validationTimers,
                   nextId>>

\* CustomizeStep's Continue: the GenerateStep is mounted
CustomizeContinue ==
    /\ wizardStep = "customize"
    /\ goNext
    /\ MountGenerateStep
    /\ UNCHANGED <<battleCard, pdfVars, uiVars, lamVars, battleCardData,
                   generatedBattleCard, validationTimers, nextId>>

\* the Back button of UseCaseStep, DocumentStep and CustomizeStep
StepBack ==
    /\ wizardStep \in {"use-case", "documents", "customize"}
    /\ goBack
    /\ UNCHANGED <<battleCard, pdfVars, uiVars, genVars, lamVars,
                   battleCardData, generatedBattleCard, validationTimers,
                   nextId>>

\* a Back button that is enabled during the run
GenerateBackAlways ==
    /\ wizardStep = "generate"
    /\ goBack
    /\ UnmountGenerateStep
    /\ UNCHANGED <<battleCard, pdfVars, uiVars, lamVars, battleCardData,
                   generatedBattleCard, validationTimers, nextId>>

\* GenerateStep's Back, disabled while a run is in progress
GenerateBack ==
    /\ wizardStep = "generate"
    /\ isComplete \/ Len(error) > 0
    /\ goBack
    /\ UnmountGenerateStep
    /\ UNCHANGED <<battleCard, pdfVars, uiVars, lamVars, battleCardData,
                   generatedBattleCard, validationTimers, nextId>>

\* View & Export that advances without a card
ViewAndExportAlways ==
    /\ wizardStep = "generate"
    /\ Len(error) = 0
    /\ goNext
    /\ UnmountGenerateStep
    /\ UNCHANGED <<battleCard, pdfVars, uiVars, lamVars, battleCardData,
                   generatedBattleCard, validationTimers, nextId>>

\* View & Export: battleCard && onComplete(battleCard), which is
\* handleGenerationComplete; shown while error is null, disabled until
\* isComplete
ViewAndExport ==
    /\ wizardStep = "generate"
    /\ Len(error) = 0
    /\ isComplete
    /\ Len(genCard) > 0
    /\ generatedBattleCard' = genCard
    /\ goNext
    /\ UnmountGenerateStep
    /\ UNCHANGED <<battleCard, pdfVars, uiVars, lamVars, battleCardData,
                   validationTimers, nextId>>

\* ExportStep's Back; the step is rendered only with a card
ExportBack ==
    /\ wizardStep = "export"
    /\ Len(generatedBattleCard) > 0
    /\ goBack
    /\ MountGenerateStep
    /\ UNCHANGED <<battleCard, pdfVars, uiVars, lamVars, battleCardData,
                   generatedBattleCard, validationTimers, nextId>>

\* ExportStep's onReset
resetWizard ==
    /\ wizardStep = "export"
    /\ Len(generatedBattleCard) > 0
    /\ wizardStep' = "competitors"
    /\ completedSteps' = <<>>
    /\ battleCardData' = [competitors |-> <<>>, useCase |-> "null",
                          documents |-> <<>>]
    /\ generatedBattleCard' = <<>>
    /\ UNCHANGED <<battleCard, pdfVars, uiVars, genVars, lamVars,
                   validationTimers, nextId>>

InitWizard ==
    /\ InitPdfOff
    /\ InitGenerateStepOff
    /\ InitLambdaOff
    /\ wizardStep = "competitors"
    /\ completedSteps = <<>>
    /\ battleCardData = [competitors |-> <<>>, useCase |-> "null",
                         documents |-> <<>>]
    /\ generatedBattleCard = <<>>
    /\ validationTimers = <<>>
    /\ nextId = 1

NextWizard ==
    \/ \E valid \in BOOLEAN : addCompetitor(valid)
    \/ \E id \in 1..MaxAdds : removeCompetitor(id)
    \/ ValidationTimeout
    \/ CompetitorsContinue
    \/ \E u \in UseCases \ {"null"} : selectUseCase(u)
    \/ UseCaseContinue
    \/ \E id \in 1..MaxDocuments : processFiles(id)
    \/ \E id \in 1..MaxDocuments : removeDocument(id)
    \/ DocumentsContinue
    \/ CustomizeContinue
    \/ StepBack
    \/ GenBegin
    \/ CallAnalyze
    \/ AnalyzeFulfilled
    \/ AnalyzeRejected
    \/ NoCompetitorAnalyzed
    \/ ProcessDocuments
    \/ CallGenerate
    \/ GenerateFulfilled
    \/ GenerateRejected
    \/ GenFinish
    \/ TryAgain
    \/ GenerateBack
    \/ ViewAndExport
    \/ ExportBack
    \/ resetWizard

SpecWizard == InitWizard /\ [][NextWizard]_vars

\* What React does with GenerateStep after a handler changed the step
Rerender ==
    IF wizardStep' = "generate" /\ wizardStep # "generate"
    THEN MountGenerateStep
    ELSE IF wizardStep # wizardStep' /\ wizardStep = "generate"
    THEN UnmountGenerateStep
    ELSE UNCHANGED genVars

\* goNext and goBack called at any step, whatever the step components allow
CallGoNext ==
    /\ goNext
    /\ Rerender
    /\ UNCHANGED <<battleCard, pdfVars, uiVars, lamVars, battleCardData,
                   generatedBattleCard, validationTimers, nextId>>

CallGoBack ==
    /\ goBack
    /\ Rerender
    /\ UNCHANGED <<battleCard, pdfVars, uiVars, lamVars, battleCardData,
                   generatedBattleCard, validationTimers, nextId>>

\* the wizard with one competitor entered and validated
InitNavigation ==
    /\ InitPdfOff
    /\ InitGenerateStepOff
    /\ InitLambdaOff
    /\ wizardStep = "competitors"
    /\ completedSteps = <<>>
    /\ battleCardData = [competitors |-> <<Competitor(1)>>,
                         useCase |-> "null", documents |-> <<>>]
    /\ generatedBattleCard = <<>>
    /\ validationTimers = <<>>
    /\ nextId = 2

NextNavigation ==
    \/ CallGoNext
    \/ CallGoBack
    \/ CompetitorsContinue
    \/ \E u \in UseCases \ {"null"} : selectUseCase(u)
    \/ UseCaseContinue
    \/ \E id \in 1..MaxDocuments : processFiles(id)
    \/ \E id \in 1..MaxDocuments : removeDocument(id)
    \/ DocumentsContinue
    \/ CustomizeContinue
    \/ StepBack
    \/ GenBegin
    \/ CallAnalyze
    \/ AnalyzeFulfilled
    \/ AnalyzeRejected
    \/ NoCompetitorAnalyzed
    \/ ProcessDocuments
    \/ CallGenerate
    \/ GenerateFulfilled
    \/ GenerateRejected
    \/ GenFinish
    \/ TryAgain
    \/ GenerateBack
    \/ ViewAndExport
    \/ ExportBack
    \/ resetWizard

SpecNavigation == InitNavigation /\ [][NextNavigation]_vars

-----------------------------------------------------------------------------
(* The generate-battlecard Lambda function.  An event carries the request   *)
(* body as a text (<<>> when the request has none) and the caller's sub     *)
(* claim (<<>> when the request is not authorized).  The calls the handler  *)
(* awaits, InvokeModel and Put, settle in actions of their own.  In a text  *)
(* "FENCE" is the three backticks of a markdown code block and "FENCEjson"  *)
(* the same followed by the word json.                                      *)

\* JSON.stringify(value): no indentation
RECURSIVE Compact(_), CompactItems(_, _), CompactMembers(_, _, _)
Compact(v) ==
    CASE v.t = "string" -> <<"DQ">> \o Quote(v.s) \o <<"DQ">>
      [] v.t = "number" -> <<Digit(v.n)>>
      [] v.t = "boolean" -> <<IF v.b THEN "true" ELSE "false">>
      [] v.t = "null" -> <<"null">>
      [] v.t = "array" -> <<"[">> \o CompactItems(v.a, 1) \o <<"]">>
      [] v.t = "object" -> <<"{">> \o CompactMembers(v, 1, FALSE) \o <<"}">>

\* an undefined item of an array is written as null
CompactItems(a, k) ==
    IF k > Len(a) THEN <<>>
    ELSE (IF k > 1 THEN <<",">> ELSE <<>>)
         \o (IF a[k].t = "undefined" THEN <<"null">> ELSE Compact(a[k]))
         \o CompactItems(a, k + 1)

\* an undefined property of an object is left out
CompactMembers(o, k, some) ==
    IF k > Len(o.k) THEN <<>>
    ELSE IF o.v[k].t = "undefined" THEN CompactMembers(o, k + 1, some)
    ELSE (IF some THEN <<",">> ELSE <<>>)
         \o <<"DQ", o.k[k], "DQ", ":">> \o Compact(o.v[k])
         \o CompactMembers(o, k + 1, TRUE)

\* !v
Falsy(v) ==
    \/ v.t \in {"undefined", "null"}
    \/ v.t = "string" /\ v.s = <<>>
    \/ v.t = "number" /\ v.n = 0
    \/ v.t = "boolean" /\ ~v.b

\* reading a property of these throws a TypeError
Nullish(v) == v.t \in {"undefined", "null"}

\* o[key] of a value that is neither null nor undefined
Member(o, key) ==
    CASE o.t = "object" /\ (\E k \in DOMAIN o.k : o.k[k] = key) ->
            o.v[CHOOSE k \in DOMAIN o.k :
                    /\ o.k[k] = key
                    /\ \A m \in DOMAIN o.k : o.k[m] = key => m <= k]
      [] o.t = "array" /\ key = "length" -> jNum(Len(o.a))
      [] o.t = "string" /\ key = "length" -> jNum(Len(o.s))
      [] OTHER -> undefined

\* v.length === 0
LengthIsZero(v) ==
    /\ Member(v, "length").t = "number"
    /\ Member(v, "length").n = 0

\* v[0] of a value that is neither null nor undefined
First(v) ==
    CASE v.t = "array" /\ Len(v.a) > 0 -> v.a[1]
      [] v.t = "string" /\ Len(v.s) > 0 -> jStr(<<v.s[1]>>)
      [] v.t = "object" -> Member(v, "0")
      [] OTHER -> undefined

\* o[key].join evaluates: the property is an array
Joins(o, key) == Member(o, key).t = "array"

\* the template of one competitor evaluates without a TypeError
CompetitorPrints(c) ==
    /\ ~Nullish(c)
    /\ Joins(c, "features")
    /\ Joins(c, "strengths")
    /\ Joins(c, "weaknesses")

\* buildBattleCardPrompt: <<prompt>>, or <<>> when it throws a TypeError
buildBattleCardPrompt(input) ==
    IF /\ Member(input, "competitors").t = "array"
       /\ \A k \in DOMAIN Member(input, "competitors").a :
              CompetitorPrints(Member(input, "competitors").a[k])
       /\ Member(input, "documents").t = "array"
       /\ \A k \in DOMAIN Member(input, "documents").a :
              ~Nullish(Member(input, "documents").a[k])
       /\ Member(input, "sections").t = "array"
       /\ Member(input, "useCase").t = "string"
    THEN <<[useCase |-> Member(input, "useCase").s,
            competitors |-> Len(Member(input, "competitors").a),
            documents |-> Len(Member(input, "documents").a)]>>
    ELSE <<>>

\* text.replace(/fence\n?/g, '')
RECURSIVE Remove(_, _)
Remove(txt, fence) ==
    IF txt = <<>> THEN <<>>
    ELSE IF Head(txt) # fence THEN <<Head(txt)>> \o Remove(Tail(txt), fence)
    ELSE IF Len(txt) > 1 /\ txt[2] = "LF" THEN Remove(Tail(Tail(txt)), fence)
    ELSE Remove(Tail(txt), fence)

\* text.trim()
RECURSIVE TrimStart(_), TrimEnd(_)
TrimStart(txt) ==
    IF txt # <<>> /\ Head(txt) \in WhiteSpace THEN TrimStart(Tail(txt))
    ELSE txt
TrimEnd(txt) ==
    IF txt # <<>> /\ txt[Len(txt)] \in WhiteSpace
    THEN TrimEnd(SubSeq(txt, 1, Len(txt) - 1))
    ELSE txt
Trim(txt) == TrimEnd(TrimStart(txt))

\* the fences of a markdown code block removed, then trim()
CleanedText(contentText) == Trim(Remove(Remove(contentText, "FENCEjson"), "FENCE"))

\* responseBody.content[0].text, or undefined standing for the TypeError of
\* reading a property of null or undefined on the way
ContentText(responseBody) ==
    IF Nullish(responseBody) THEN undefined
    ELSE IF Nullish(Member(responseBody, "content")) THEN undefined
    ELSE IF Nullish(First(Member(responseBody, "content"))) THEN undefined
    ELSE Member(First(Member(responseBody, "content")), "text")

\* the try block of generateWithBedrock once send has settled with reply
\* (<<>> when send rejected): <<the card>>, or <<>> when the block throws
GeneratedWith(reply) ==
    IF reply = <<>> THEN <<>>
    ELSE IF ~JSONparse(reply[1]).ok THEN <<>>
    ELSE IF ContentText(JSONparse(reply[1]).v).t # "string" THEN <<>>
    ELSE IF ~JSONparse(CleanedText(ContentText(JSONparse(reply[1]).v).s)).ok
    THEN <<>>
    ELSE <<[id |-> "battlecard-now",
            content |-> JSONparse(CleanedText(
                            ContentText(JSONparse(reply[1]).v).s)).v,
            generatedAt |-> "now"]>>

\* a competitor analysis as analyzeCompetitor returns it
AnalysisValue ==
    jObj(<<"name", "features", "strengths", "weaknesses">>,
         <<jStr(<<"a">>), jArr(<<jStr(<<"f">>)>>), jArr(<<>>),
           jArr(<<jStr(<<"w">>)>>)>>)

CompetitorValues ==
    {undefined, jNull, jNum(0), jNum(2), jStr(<<>>), jStr(<<"a">>),
     jObj(<<>>, <<>>), jArr(<<>>), jArr(<<AnalysisValue>>),
     jArr(<<AnalysisValue, AnalysisValue>>), jArr(<<jNull>>),
     jArr(<<jObj(<<"name">>, <<jStr(<<"a">>)>>)>>)}
UseCaseValues ==
    {undefined, jNull, jStr(<<>>), jStr(<<"ctem">>), jNum(0), jNum(1)}
DocumentValues ==
    {undefined, jArr(<<>>),
     jArr(<<jObj(<<"name", "summary">>, <<jStr(<<"d">>), jStr(<<"s">>)>>)>>)}
SectionValues == {undefined, jArr(<<jStr(<<"Overview">>)>>)}

\* the values a request body may be the JSON text of
InputValues ==
    {jNull, jNum(1), jStr(<<"a">>), jArr(<<>>), jObj(<<>>, <<>>)}
    \cup { jObj(<<"competitors", "useCase", "documents", "template",
                  "sections">>,
                <<c, u, d, jStr(<<"feature-grid">>), s>>) :
             c \in CompetitorValues, u \in UseCaseValues,
             d \in DocumentValues, s \in SectionValues }

\* texts that are not JSON
MalformedTexts ==
    {<<"<">>, <<"{">>, <<"{", "DQ", "competitors", "DQ", ":", "[", "]">>}

Events ==
    [body : {<<>>, <<(<<>>)>>} \cup {<<Compact(v)>> : v \in InputValues}
              \cup {<<txt>> : txt \in MalformedTexts},
     sub : {<<>>, <<"user">>}]

\* the JSON text of a battle card, as the prompt asks for it
CardText ==
    Compact(jObj(<<"title", "overview", "strengths">>,
                 <<jStr(<<"t">>), jStr(<<"o", "LF", "DQ">>),
                   jArr(<<jStr(<<"s">>)>>)>>))

\* what the model may answer with
ContentTexts ==
    {CardText,
     <<"FENCEjson", "LF">> \o CardText \o <<"LF", "FENCE">>,
     <<"FENCE", "LF">> \o CardText \o <<"LF", "FENCE", "LF">>,
     <<"SP">> \o CardText \o <<"LF">>,
     <<"H", "i", ":", "LF">> \o CardText,
     <<"FENCE", "j", "s", "LF">> \o CardText \o <<"FENCE">>,
     <<"null">>,
     <<>>}

\* the decoded body of the InvokeModel response
ReplyBody(content) == Compact(jObj(<<"content">>, <<content>>))

\* how bedrockClient.send may settle: <<>> is a rejection
BedrockReplies ==
    {<<>>}
    \cup {<<ReplyBody(jArr(<<jObj(<<"text">>, <<jStr(txt)>>)>>))>> :
             txt \in ContentTexts}
    \cup {<<ReplyBody(jArr(<<>>))>>, <<ReplyBody(jNull)>>,
          <<ReplyBody(jArr(<<jObj(<<"text">>, <<jNum(1)>>)>>))>>,
          <<Compact(jObj(<<>>, <<>>))>>, <<Compact(jNull)>>, <<(<<"<">>)>>}

\* event.body, or the text {} when it is null, undefined or empty
BodyText ==
    IF event.body = <<>> \/ event.body[1] = <<>> THEN <<"{", "}">>
    ELSE event.body[1]

\* const input = JSON.parse(event.body || '{}')
Input == JSONparse(BodyText).v

\* return { statusCode, headers, body }
Respond(status, message, card) ==
    /\ response' = <<[statusCode |-> status, error |-> message,
                      card |-> card]>>
    /\ lpc' = "done"

\* the Item of the PutCommand
Item(card) ==
    [card |-> card,
     userId |-> IF event.sub = <<>> THEN "anonymous" ELSE event.sub[1],
     competitors |-> [k \in DOMAIN Member(Input, "competitors").a |->
                         Member(Member(Input, "competitors").a[k], "name")],
     useCase |-> Member(Input, "useCase").s]

\* the handler up to bedrockClient.send
HandlerStart ==
    /\ lpc = "received"
    /\ IF ~JSONparse(BodyText).ok
       THEN Respond(500, "SyntaxError", <<>>) /\ UNCHANGED invoked
       ELSE IF Nullish(Input)
       THEN Respond(500, "TypeError", <<>>) /\ UNCHANGED invoked
       ELSE IF \/ Falsy(Member(Input, "competitors"))
               \/ LengthIsZero(Member(Input, "competitors"))
       THEN /\ Respond(400, "At least one competitor is required", <<>>)
            /\ UNCHANGED invoked
       ELSE IF Falsy(Member(Input, "useCase"))
       THEN Respond(400, "Use case is required", <<>>) /\ UNCHANGED invoked
       ELSE IF buildBattleCardPrompt(Input) = <<>>
       THEN Respond(500, "TypeError", <<>>) /\ UNCHANGED invoked
       ELSE /\ invoked' = Append(invoked,
                                 [prompt |-> buildBattleCardPrompt(Input)[1],
                                  state |-> "pending", reply |-> <<>>])
            /\ lpc' = "bedrock"
            /\ UNCHANGED response
    /\ UNCHANGED <<event, stored, battleCard, pdfVars, uiVars, genVars,
                   wizVars>>

\* bedrockClient.send settles: the rest of generateWithBedrock, and the
\* handler up to docClient.send
InvokeModelSettles(reply) ==
    /\ lpc = "bedrock"
    /\ invoked' = [invoked EXCEPT ![Len(invoked)].state = "settled",
                                  ![Len(invoked)].reply = reply]
    /\ IF GeneratedWith(reply) = <<>>
       THEN /\ Respond(500, "Failed to generate battle card with AI", <<>>)
            /\ UNCHANGED stored
       ELSE /\ stored' = Append(stored,
                                [item |-> Item(GeneratedWith(reply)[1]),
                                 state |-> "pending"])
            /\ lpc' = "dynamo"
            /\ UNCHANGED response
    /\ UNCHANGED <<event, battleCard, pdfVars, uiVars, genVars, wizVars>>

\* docClient.send settles: the handler's 200, or its catch
PutSettles(ok) ==
    /\ lpc = "dynamo"
    /\ stored' = [stored EXCEPT ![Len(stored)].state =
                                    IF ok THEN "stored" ELSE "rejected"]
    /\ IF ok THEN Respond(200, "", <<stored[Len(stored)].item.card>>)
       ELSE Respond(500, "Put rejected", <<>>)
    /\ UNCHANGED <<event, invoked, battleCard, pdfVars, uiVars, genVars,
                   wizVars>>

InitLambda ==
    /\ InitPdfOff
    /\ InitWizardOff
    /\ InitGenerateStepOff
    /\ lpc = "received"
    /\ event \in Events
    /\ invoked = <<>>
    /\ stored = <<>>
    /\ response = <<>>

NextLambda ==
    \/ HandlerStart
    \/ \E reply \in BedrockReplies : InvokeModelSettles(reply)
    \/ \E ok \in BOOLEAN : PutSettles(ok)

SpecLambda == InitLambda /\ [][NextLambda]_vars

-----------------------------------------------------------------------------
(* GenerateStep and the Lambda function together: generateBattleCard posts  *)
(* the request to /generate-battlecard, the handler answers it, and the     *)
(* answer settles the promise GenerateStep awaits.                          *)

\* the argument of generateBattleCard as a JavaScript value
RequestValue(req) ==
    jObj(<<"competitors", "useCase", "documents", "template", "sections",
           "forceRegenerate">>,
         <<jArr([k \in DOMAIN req.competitors |-> AnalysisValue]),
           IF req.useCase = "null" THEN jNull ELSE jStr(<<req.useCase>>),
           jArr([k \in DOMAIN req.documents |->
                    jObj(<<"id", "summary">>,
                         <<jNum(req.documents[k].id),
                           jStr(<<req.documents[k].summary>>)>>)]),
           jStr(<<"feature-grid">>),
           jArr(<<jStr(<<"Overview">>)>>),
           jBool(TRUE)>>)

\* fetch(endpoint + '/generate-battlecard', { method: 'POST', body })
PostRequest ==
    /\ gpc = "awaitGenerate"
    /\ lpc = "idle"
    /\ event' = [body |-> <<Compact(RequestValue(request[1]))>>,
                 sub |-> <<>>]
    /\ response' = <<>>
    /\ lpc' = "received"
    /\ UNCHANGED <<invoked, stored, battleCard, pdfVars, uiVars, genVars,
                   wizVars>>

\* response.ok: return await response.json()
ResponseOk ==
    /\ gpc = "awaitGenerate"
    /\ lpc = "done"
    /\ response[1].statusCode = 200
    /\ calls' = Settle(calls, "fulfilled")
    /\ outstanding' = outstanding - 1
    /\ currentStep' = 4
    /\ gpc' = "build"
    /\ lpc' = "idle"
    /\ UNCHANGED <<wizVars, event, invoked, stored, response, attempt,
                   battleCard, pdfVars, uiVars, data, gi, competitorAnalyses,
                   processedDocuments, request, isComplete, error, genCard,
                   gtoasts>>

\* !response.ok: throw new Error('Failed to generate battle card')
ResponseNotOk ==
    /\ gpc = "awaitGenerate"
    /\ lpc = "done"
    /\ response[1].statusCode # 200
    /\ calls' = Settle(calls, "rejected")
    /\ outstanding' = outstanding - 1
    /\ GenCatch("Failed to generate battle card")
    /\ lpc' = "idle"
    /\ UNCHANGED <<wizVars, event, invoked, stored, response, attempt,
                   battleCard, pdfVars, uiVars, data, gi, competitorAnalyses,
                   processedDocuments, request, currentStep, isComplete,
                   genCard>>

\* fetch rejects before the request reaches the function
FetchRejected ==
    /\ lpc = "idle"
    /\ GenerateRejected

InitService == InitGen

NextService ==
    \/ GenBegin
    \/ CallAnalyze
    \/ AnalyzeFulfilled
    \/ AnalyzeRejected
    \/ NoCompetitorAnalyzed
    \/ ProcessDocuments
    \/ CallGenerate
    \/ PostRequest
    \/ HandlerStart
    \/ \E reply \in BedrockReplies : InvokeModelSettles(reply)
    \/ \E ok \in BOOLEAN : PutSettles(ok)
    \/ ResponseOk
    \/ ResponseNotOk
    \/ FetchRejected
    \/ GenFinish
    \/ TryAgain

SpecService == InitService /\ [][NextService]_vars

-----------------------------------------------------------------------------
(* Properties of the export                                                 *)

Ops(kinds) == {k \in DOMAIN doc : doc[k].kind \in kinds}
ContentKinds == {"card", "diffCard", "row", "testimonial"}
pageBottom == pageHeight - margin

IsEmpty(card, fld) ==
    \/ fld \notin card.has
    \/ card[fld] = IF fld \in StringFields THEN EmptyStr ELSE <<>>

\* the fields a section header announces
SectionFields(sec) ==
    CASE sec = "Executive Overview" -> {"overview"}
      [] sec = "Head-to-Head Comparison" -> {"strengths", "weaknesses"}
      [] sec = "Key Differentiators" -> {"differentiators"}
      [] sec = "Objection Handling" -> {"objections"}
      [] sec = "Pricing Model" -> {"pricing"}
      [] sec = "Discovery Questions" -> {"questions"}
      [] sec = "Customer Testimonies" -> {"testimonials"}

\* C1: a section header is on the drawing surface only if a field of its
\* section is non-empty; a record whose fields are all empty gets no section
\* header at all.
C1_HeaderOnlyIfNonEmpty ==
    \A k \in Ops({"sectionHeader"}) :
        \E fld \in SectionFields(doc[k].sec) : ~IsEmpty(battleCard, fld)

\* C2: once the document is saved, every page 1..N carries exactly one footer,
\* which reads "Page i of N" with i its own number and N the final number of
\* pages, and no footer lies outside 1..N.
C2_FooterOnEveryPage ==
    Len(saved) > 0 =>
        /\ \A p \in 1..numPages :
               Cardinality({k \in DOMAIN footers : footers[k].page = p}) = 1
        /\ \A k \in DOMAIN footers :
               /\ footers[k].page \in 1..numPages
               /\ footers[k].i = footers[k].page
               /\ footers[k].of = numPages

C2_Witness ==
    /\ pc = "done"
    /\ Len(saved) = 1
    /\ numPages >= 3
    /\ Len(footers) = numPages

\* the height the grid code computes for one differentiator: measured right
\* after the section header, in the header's font
DiffRequirement(diff) ==
    20 + 5 * Len(splitTextToSize(diff, diffCardWidth3 - 24,
                                 [size |-> 14, style |-> "bold"]))

DiffRow(k) == (doc[k].idx - 1) \div diffCols

RECURSIVE Flatten(_, _)
Flatten(lines, k) ==
    IF k > Len(lines) THEN <<>> ELSE lines[k] \o Flatten(lines, k + 1)

ContHeader(k) == doc[k].kind = "tableHeader" /\ doc[k].sec = "RISK SIGNAL (CONT.)"

\* C4: the rows on the surface are the objections 1, 2, ... in input order,
\* each once and with the words of its own question and answer; a row that
\* starts a new page is preceded on that page, at the top margin, by the
\* column header marked "(CONT.)", and that header appears nowhere else;
\* any other row directly follows, on its own page, the previous row or the
\* first column header under the section header.
C4_ObjectionRows ==
    LET rows == Ops({"row"})
        objs == battleCard.objections
    IN  /\ \A k \in rows :
              /\ doc[k].idx = Cardinality({j \in rows : j <= k})
              /\ Flatten(doc[k].q, 1) = objs[doc[k].idx].objection[1]
              /\ Flatten(doc[k].a, 1) = objs[doc[k].idx].response[1]
              /\ IF ContHeader(k - 1)
                 THEN /\ doc[k - 1].page = doc[k].page
                      /\ doc[k - 1].y = margin
                      /\ doc[k].y = margin + 8
                      /\ doc[k - 2].page = doc[k].page - 1
                 ELSE /\ doc[k - 1].page = doc[k].page
                      /\ doc[k - 1].kind = "row"
                         \/ /\ doc[k - 1].kind = "tableHeader"
                            /\ doc[k - 2].kind = "sectionHeader"
                            /\ doc[k - 2].sec = "Objection Handling"
        /\ \A k \in DOMAIN doc : ContHeader(k) => (k + 1) \in rows
        /\ pc \in {"testHeader", "testimonials", "footer", "returned"}
               => Cardinality(rows) = Len(objs)

C4_Witness ==
    /\ pc = "testHeader"
    /\ Len(battleCard.objections) = 3
    /\ \E k \in Ops({"row"}) :
           /\ doc[k].idx = 3
           /\ Len(doc[k].a) >= 20
           /\ ContHeader(k - 1)

\* C5: every content block on the surface ends above the bottom margin of
\* its page.
C5_BlocksFitPage ==
    \A k \in Ops(ContentKinds) : doc[k].y + doc[k].h <= pageBottom

\* the first content block after the header at k, when no other header of
\* drawSectionHeader comes before it
FirstContent(k) ==
    LET later == {j \in Ops(ContentKinds) : j > k}
    IN  {j \in later : \A m \in later : j <= m}

\* C6: the first content block that follows a section header is on the
\* header's page.
C6_HeaderWithContent ==
    \A k \in Ops({"sectionHeader"}) :
        \A j \in FirstContent(k) :
            (\A m \in Ops({"sectionHeader"}) : ~(k < m /\ m < j))
                => doc[j].page = doc[k].page

CheckPageBreakLaw(e) ==
    IF e.y0 + e.h > pageHeight - margin
    THEN e.pages1 = e.pages0 + 1 /\ e.y1 = margin /\ e.ret
    ELSE e.pages1 = e.pages0 /\ e.y1 = e.y0 /\ ~e.ret

\* C7: every call of checkPageBreak either overflows, appends one page,
\* resets the offset to the margin and returns true, or fits, leaves pages
\* and offset alone and returns false; and a step of the layout adds as many
\* pages as it has calls that returned true.
C7_CheckPageBreak ==
    [][/\ \A k \in DOMAIN cpb' : CheckPageBreakLaw(cpb'[k])
       /\ pc \notin {"idle", "done"} =>
              numPages' = numPages
                          + Cardinality({k \in DOMAIN cpb' : cpb'[k].ret})]_vars

C7_Witness ==
    /\ Len(cpb) = 2
    /\ cpb[1].ret
    /\ ~cpb[2].ret
    /\ numPages = 2
    /\ y > margin

\* C8: the export of a record that lacks fields never throws.
C8_AbsentFieldNeverThrows ==
    pc # "threw" /\ (\A k \in DOMAIN toasts : toasts[k] # "Error")

\* C9: an export that throws ends in the catch of exportToPDF with the one
\* failure notification, nothing saved and no success notification, and no
\* step of an export changes battleCard, expandedSections or copied.
C9_FailedExport ==
    [][/\ pc' = "threw" => saved' = <<>> /\ toasts' = <<>>
       /\ pc = "threw" =>
              pc' = "done" /\ toasts' = <<"Error">> /\ saved' = <<>>
       /\ (pc \notin {"idle", "done"} \/ pc' \notin {"idle", "done"}) =>
              UNCHANGED <<battleCard, expandedSections, copied>>]_vars

C9_Witness ==
    /\ pc = "done"
    /\ toasts = <<"Error">>
    /\ saved = <<>>
    /\ Len(doc) > 3
    /\ copied
    /\ expandedSections = {}

-----------------------------------------------------------------------------
(* Properties of the generation batch                                       *)

CallsOf(fn) == {k \in DOMAIN calls : calls[k].fn = fn}

\* the analyses of the fulfilled analyzeCompetitor calls, in call order
RECURSIVE FulfilledAnalyses(_)
FulfilledAnalyses(k) ==
    IF k > Len(calls) THEN <<>>
    ELSE (IF calls[k].fn = "analyzeCompetitor" /\ calls[k].state = "fulfilled"
          THEN <<Analysis(calls[k].arg)>> ELSE <<>>)
         \o FulfilledAnalyses(k + 1)

AnalysisOver == gpc \in {"extract", "awaitGenerate", "build", "complete", "failed"}

\* C10: the k-th analyzeCompetitor call is for the k-th competitor; a rejected
\* call leaves a warning and the loop goes on, so once the loop is over every
\* competitor has been analyzed; the analyses kept, and the competitors of
\* the generation request, are exactly the fulfilled ones in input order; and
\* with no fulfilled analysis the run fails with its error set and
\* generateBattleCard is not called.
C10_PartialFailures ==
    LET analyze == CallsOf("analyzeCompetitor")
        rejected == {k \in analyze : calls[k].state = "rejected"}
        warnings == {k \in DOMAIN gtoasts : gtoasts[k] = "Warning"}
    IN  /\ \A k \in analyze :
              /\ k <= Len(data.competitors)
              /\ calls[k].arg = data.competitors[k].url
        /\ competitorAnalyses = FulfilledAnalyses(1)
        /\ Cardinality(warnings) = Cardinality(rejected)
        /\ AnalysisOver => Cardinality(analyze) = Len(data.competitors)
        /\ CallsOf("generateBattleCard") # {} =>
              /\ Len(request) = 1
              /\ request[1].competitors = FulfilledAnalyses(1)
              /\ Len(request[1].competitors) > 0
        /\ (AnalysisOver /\ Len(FulfilledAnalyses(1)) = 0) =>
              /\ gpc = "failed"
              /\ error = <<"Failed to analyze any competitors">>
              /\ CallsOf("generateBattleCard") = {}
              /\ request = <<>>

C10_Witness ==
    /\ gpc = "complete"
    /\ Len(data.competitors) = 3
    /\ calls[1].state = "fulfilled"
    /\ calls[2].state = "rejected"
    /\ calls[3].state = "fulfilled"
    /\ request[1].competitors = <<Analysis(1), Analysis(3)>>
    /\ gtoasts = <<"Warning", "Success">>

\* the stages of the running attempt: every competitor analyzed, every
\* document processed, the generation requested with this run's results
AllStagesRun ==
    /\ Cardinality(CallsOf("analyzeCompetitor")) = Len(data.competitors)
    /\ \A k \in CallsOf("analyzeCompetitor") :
           calls[k].arg = data.competitors[k].url
    /\ processedDocuments =
           [k \in 1..Len(data.documents) |-> Processed(data.documents[k])]
    /\ Cardinality(CallsOf("generateBattleCard")) = 1
    /\ request[1].competitors = FulfilledAnalyses(1)
    /\ request[1].documents = processedDocuments

\* C11: a failed run stays failed until Try Again, which is offered only
\* with the error set and which clears the error and puts the progress step
\* back to 0; the run it starts begins with no analyses, no processed
\* documents, no request and no service call carried over, a run begins only
\* from the mount or from that click, and a later attempt that completes has
\* gone through every stage again.
C11_RetryRestartsBatch ==
    /\ [][/\ (gpc = "failed" /\ gpc' # "failed") =>
                /\ Len(error) > 0
                /\ error' = <<>>
                /\ currentStep' = 0
                /\ gpc' = "start"
                /\ attempt' = attempt
          /\ (gpc # "start" /\ gpc' = "start") => gpc = "failed"
          /\ attempt' # attempt =>
                /\ gpc = "start"
                /\ attempt' = attempt + 1
                /\ gpc' = "analyze"
                /\ gi' = 0
                /\ competitorAnalyses' = <<>>
                /\ processedDocuments' = <<>>
                /\ request' = <<>>
                /\ calls' = <<>>
                /\ error' = <<>>
                /\ currentStep' = 0]_vars
    /\ []((attempt >= 2 /\ gpc = "complete") => AllStagesRun)

C11_Witness ==
    /\ attempt = 2
    /\ gpc = "complete"
    /\ Len(data.competitors) = MaxCompetitors
    /\ Len(data.documents) = MaxDocuments
    /\ Cardinality(CallsOf("analyzeCompetitor")) = MaxCompetitors
    /\ error = <<>>

-----------------------------------------------------------------------------
(* Properties of the JSON export                                            *)

\* the value of property fld of a parsed object, <<>> when it has none
Property(obj, fld) ==
    LET at == {k \in DOMAIN obj.k : obj.k[k] = fld}
    IN  IF at = {} THEN <<>> ELSE <<obj.v[CHOOSE k \in at : TRUE]>>

\* C12: the text of every JSON download parses, and the parsed object is
\* structurally identical to the record: it has exactly the record's
\* properties, and each of id, title, overview, differentiators, strengths,
\* weaknesses, pricing, objections, questions, testimonials and generatedAt
\* has the value it has in the record.
C12_JsonRoundTrip ==
    \A d \in DOMAIN downloads :
        LET r == JSONparse(downloads[d].dataStr)
        IN  /\ r.ok
            /\ r.v = JsValue(battleCard)
            /\ \A fld \in AllJsonFields :
                   Property(r.v, fld) =
                       IF fld \in battleCard.has
                       THEN <<FieldValue(battleCard, fld)>> ELSE <<>>

C12_Witness ==
    /\ Len(downloads) = 1
    /\ battleCard.has = AllJsonFields
    /\ battleCard.title = <<"[", ",", "DQ", "BS", "]">>
    /\ Len(battleCard.objections) = 2
    /\ Len(battleCard.testimonials) = 1
    /\ JSONparse(downloads[1].dataStr).ok
    /\ Len(downloads[1].dataStr) > 100

\* the characters of a saved file name between "BattleCard_" and ".pdf"
Stem(name) == SubSeq(name, 2, Len(name) - 1)

\* C14: a saved file is named "BattleCard_", then the title with each
\* character other than an ASCII letter or digit replaced by one underscore,
\* then ".pdf": the letters and digits of the title are kept, unchanged and
\* in order, and no other character of the title is left in the name.
C14_FileName ==
    \A k \in DOMAIN saved :
        LET name == saved[k]
            title == battleCard.title
            IsAlnum(c) == c \in AlnumChars
        IN  /\ name[1] = "BattleCard_"
            /\ name[Len(name)] = ".pdf"
            /\ Len(Stem(name)) = Len(title)
            /\ \A j \in DOMAIN title :
                   Stem(name)[j] = IF IsAlnum(title[j]) THEN title[j] ELSE "_"
            /\ SelectSeq(Stem(name), IsAlnum) = SelectSeq(title, IsAlnum)
            /\ \A j \in DOMAIN Stem(name) :
                   IsAlnum(Stem(name)[j]) \/ Stem(name)[j] = "_"

C14_Witness ==
    /\ pc = "done"
    /\ battleCard.title = <<"Z", "eacute">>
    /\ saved = <<<<"BattleCard_", "Z", "_", ".pdf">>>>

\* the measured width of a line: its words and the spaces between them
RECURSIVE LineWidth(_, _, _)
LineWidth(line, k, style) ==
    IF k > Len(line) THEN 0
    ELSE WordWidth(line[k], style) + (IF k > 1 THEN spaceCharWidth ELSE 0)
         + LineWidth(line, k + 1, style)

\* the style the rows are measured in: what the column header left for the
\* first row, what the previous row left for the others
MeasureFont(idx) == [size |-> 9, style |-> IF idx = 1 THEN "bold" ELSE "normal"]

\* every line of every measured text of the rows is at most as wide as its
\* column
C13_LinesFit ==
    \A k \in Ops({"row"}) :
        /\ \A j \in DOMAIN doc[k].q :
               ~TooWide(LineWidth(doc[k].q[j], 1, MeasureFont(doc[k].idx).style),
                        3 * col1Width - 18, MeasureFont(doc[k].idx))
        /\ \A j \in DOMAIN doc[k].a :
               ~TooWide(LineWidth(doc[k].a[j], 1, MeasureFont(doc[k].idx).style),
                        3 * col2Width - 18, MeasureFont(doc[k].idx))

\* the lines of every measured text of the rows, put together in order, are
\* the words of the text
C13_WordsKept ==
    \A k \in Ops({"row"}) :
        /\ Flatten(doc[k].q, 1) = battleCard.objections[doc[k].idx].objection[1]
        /\ Flatten(doc[k].a, 1) = battleCard.objections[doc[k].idx].response[1]

\* C13: for the non-empty texts of the objections and the widths of the two
\* columns, splitTextToSize returns lines that are each at most as wide as
\* the column, and the lines joined in order give back the words of the
\* text in their order.
C13_MeasureLaw == C13_LinesFit /\ C13_WordsKept

\* C15: no step of an export, from the call of exportProfessionalPDF to its
\* return or its throw and the handling of either in exportToPDF, changes
\* the record: title, overview, pricing, every list and every list element
\* stay what they were before the call.
C15_RecordReadOnly ==
    [][/\ battleCard'.has = battleCard.has
       /\ battleCard'.title = battleCard.title
       /\ \A fld \in Fields : battleCard'[fld] = battleCard[fld]
       /\ battleCard' = battleCard]_vars

C15_Witness ==
    /\ pc = "done"
    /\ Len(saved) = 1
    /\ Len(battleCard.strengths) = MaxBullets - 1
    /\ Len(battleCard.differentiators) = MaxDiffs
    /\ Len(battleCard.objections) = MaxObjections
    /\ Len(battleCard.testimonials) = MaxTestimonials
    /\ \E k \in Ops({"card"}) : doc[k].sec = "Tuskira Strengths"

\* the place of a block's section in the emission order
SectionRank(op) ==
    CASE op.kind = "banner" -> 1
      [] op.sec \in {"Executive Overview", "At a Glance"} -> 2
      [] op.sec \in {"Head-to-Head Comparison", "Tuskira Strengths",
                     "Competitor Weaknesses"} -> 3
      [] op.sec = "Key Differentiators" -> 4
      [] op.sec \in {"Objection Handling", "RISK SIGNAL",
                     "RISK SIGNAL (CONT.)"} -> 5
      [] op.sec \in {"Pricing Model", "Pricing", "Discovery Questions",
                     "Ask This"} -> 6
      [] op.sec = "Customer Testimonies" -> 7

\* the content blocks a section has once it is drawn in full
SectionBlocks(r) ==
    LET len(fld) == IF fld \in battleCard.has THEN Len(battleCard[fld]) ELSE 0
    IN  CASE r = 1 -> 1
          [] r = 2 -> 1
          [] r = 3 -> 2
          [] r = 4 -> len("differentiators")
          [] r = 5 -> len("objections")
          [] r = 6 -> 2
          [] r = 7 -> len("testimonials")

Before(j, k) ==
    \/ doc[j].page < doc[k].page
    \/ doc[j].page = doc[k].page /\ doc[j].y <= doc[k].y

\* C16: on the surface the blocks follow the order banner, overview,
\* strengths / weaknesses, differentiators, objections, pricing / discovery
\* questions, testimonials; when a block of a section is drawn, every
\* earlier section has all its content blocks; and a block of a later
\* section never lies on an earlier page, or higher on the same page, than
\* a block of an earlier section.
C16_EmissionOrder ==
    LET rank == [k \in DOMAIN doc |-> SectionRank(doc[k])]
        blocks == Ops(ContentKinds \cup {"banner"})
        reached == {rank[k] : k \in DOMAIN doc}
    IN  /\ \A k \in DOMAIN doc : k > 1 => rank[k - 1] <= rank[k]
        /\ \A j, k \in DOMAIN doc : rank[j] < rank[k] => Before(j, k)
        /\ \A r \in 1..7 :
               (\E later \in reached : r < later) =>
                   Cardinality({j \in blocks : rank[j] = r}) = SectionBlocks(r)

C16_Witness ==
    /\ pc = "done"
    /\ numPages >= 3
    /\ Len(battleCard.differentiators) = MaxDiffs
    /\ Len(battleCard.objections) = MaxObjections
    /\ Len(battleCard.testimonials) = MaxTestimonials
    /\ {SectionRank(doc[k]) : k \in DOMAIN doc} = 1..7

\* the card titled sec on the surface
CardOf(sec) == CHOOSE k \in Ops({"card"}) : doc[k].sec = sec

\* the two cards of a pair stand side by side, each as tall as its own
\* lines need
SideBySide(left, right) ==
    LET l == doc[CardOf(left)]
        r == doc[CardOf(right)]
    IN  /\ l.page = r.page
        /\ l.y = r.y
        /\ l.x = 3 * margin
        /\ r.x = 3 * (margin + colWidth + colGap)
        /\ l.h = 20 + 5 * l.lines
        /\ r.h = 20 + 5 * r.lines

\* the cursor right after a pair: below the taller card by the spacing
AdvancedByMax(left, right, spacing) ==
    LET l == doc[CardOf(left)]
        r == doc[CardOf(right)]
    IN  /\ page = l.page
        /\ y = l.y + (IF l.h >= r.h THEN l.h ELSE r.h) + spacing
        /\ y >= l.y + l.h + spacing
        /\ y >= r.y + r.h + spacing

\* C17: the strengths and weaknesses cards, and the pricing and questions
\* cards, are drawn at one top offset on one page, each with the height of
\* its own lines, and right after a pair the cursor is the top offset plus
\* the larger of the two heights plus the spacing (12 and 15).
C17_PairAdvance ==
    /\ (\E k \in Ops({"card"}) : doc[k].sec = "Competitor Weaknesses") =>
           SideBySide("Tuskira Strengths", "Competitor Weaknesses")
    /\ (\E k \in Ops({"card"}) : doc[k].sec = "Ask This") =>
           SideBySide("Pricing", "Ask This")
    /\ pc = "diffHeader" =>
           AdvancedByMax("Tuskira Strengths", "Competitor Weaknesses", 12)
    /\ pc = "testHeader" => AdvancedByMax("Pricing", "Ask This", 15)

C17_Witness ==
    /\ pc = "testHeader"
    /\ doc[CardOf("Tuskira Strengths")].h < doc[CardOf("Competitor Weaknesses")].h
    /\ doc[CardOf("Pricing")].h < doc[CardOf("Ask This")].h
    /\ y = doc[CardOf("Ask This")].y + doc[CardOf("Ask This")].h + 15

\* the footer pass of the running export has read the page count
FooterPassBegun == totalPages > 0

\* C18: when the footer pass has begun, every section has all its content
\* blocks on the surface and the page count it read is the page count of
\* the document; from then on, to the end of the export, no step draws a
\* block or adds a page; the footers are stamped page by page from the
\* first; and a file is saved only when the last page has its footer.
C18_FooterPassTerminal ==
    /\ [](FooterPassBegun =>
            /\ \A r \in 1..7 :
                   Cardinality({k \in Ops(ContentKinds \cup {"banner"}) :
                                   SectionRank(doc[k]) = r}) = SectionBlocks(r)
            /\ totalPages = numPages
            /\ \A k \in DOMAIN footers : footers[k].page = k
            /\ Len(saved) > 0 =>
                   /\ Len(footers) = totalPages
                   /\ footers[totalPages].page = numPages)
    /\ [][(FooterPassBegun /\ FooterPassBegun') =>
              /\ doc' = doc
              /\ numPages' = numPages
              /\ totalPages' = totalPages]_vars
    /\ [][saved' # saved /\ Len(saved') > 0 =>
              Len(footers) = totalPages /\ FooterPassBegun]_vars

C18_Witness ==
    /\ pc = "returned"
    /\ totalPages = 3
    /\ Len(footers) = 3
    /\ Len(saved) = 1
    /\ Len(battleCard.testimonials) = MaxTestimonials

\* every page added by a page break starts with the cursor at the margin
C19_LaterPages ==
    \A k \in DOMAIN cpb :
        cpb[k].pages1 > cpb[k].pages0 =>
            /\ cpb[k].pages1 = cpb[k].pages0 + 1
            /\ cpb[k].y1 = margin

RightColumn == {"Competitor Weaknesses", "Ask This", "Discovery Questions"}

\* C20: the content width is the page width less both margins; a column of
\* a pair is half of the content width less the gap of 10, so two columns
\* and the gap span the content width; the 35% and 65% columns of the
\* objections table span the content width; and on the surface every card
\* is one column or the content width wide from the margin, or one column
\* wide from margin + column + gap, ending at the right margin.
C20_PageGeometry ==
    /\ contentWidth = pageWidth - 2 * margin
    /\ colGap = 10
    /\ 2 * colWidth = contentWidth - colGap
    /\ colWidth + colGap + colWidth = contentWidth
    /\ col1Width + col2Width = contentWidth
    /\ 100 * col1Width = 35 * contentWidth
    /\ 100 * col2Width = 65 * contentWidth
    /\ \A k \in Ops({"card", "sectionHeader"}) :
           IF doc[k].sec \in RightColumn
           THEN /\ doc[k].x = 3 * (margin + colWidth + colGap)
                /\ doc[k].x + 3 * colWidth = 3 * (pageWidth - margin)
           ELSE doc[k].x = 3 * margin
    /\ \A k \in Ops({"row", "tableHeader"}) :
           /\ doc[k].x = 3 * margin
           /\ doc[k].x + 3 * (col1Width + col2Width) = 3 * (pageWidth - margin)

C20_Witness ==
    /\ pc = "done"
    /\ Len(saved) = 1
    /\ \E k \in Ops({"card"}) : doc[k].sec = "Competitor Weaknesses"
    /\ \E k \in Ops({"card"}) : doc[k].sec = "Ask This"
    /\ Cardinality(Ops({"row"})) = MaxObjections

\* the lines of differentiator k as the height loop wraps them: in the font
\* the section header leaves behind
MeasuredDiffLines(k) ==
    splitTextToSize(battleCard.differentiators[k], diffCardWidth3 - 24,
                    drawSectionHeader(Now, "Key Differentiators").font)

\* the lines of differentiator k as the grid draws them
DrawnDiffLines(k) ==
    splitTextToSize(battleCard.differentiators[k], diffCardWidth3 - 24,
                    [size |-> 9, style |-> "normal"])

\* C21: the lines a block's height is computed from are the lines drawn in
\* it; for each differentiator card on the surface the lines measured for
\* maxDiffHeight are the lines drawn in the card, so that maxDiffHeight is
\* the height of the tallest drawn text: 20 + 5 x its number of lines.
C21_MeasuredIsDrawn ==
    \A k \in Ops({"diffCard"}) :
        /\ Len(DrawnDiffLines(doc[k].idx)) = doc[k].lines
        /\ MeasuredDiffLines(doc[k].idx) = DrawnDiffLines(doc[k].idx)
        /\ maxDiffHeight >= 20 + 5 * doc[k].lines
        /\ (i = Len(battleCard.differentiators) =>
               \E j \in Ops({"diffCard"}) :
                   maxDiffHeight = 20 + 5 * doc[j].lines)

-----------------------------------------------------------------------------
(* Properties of the generation batch, continued                            *)

Pending == {k \in DOMAIN calls : calls[k].state = "pending"}

\* C22: the batch calls the services one at a time: the analyzeCompetitor
\* calls are issued in the order of the competitor list, a call is issued
\* only when every earlier call has settled, at most one call is pending,
\* and generateBattleCard is requested only after every competitor has been
\* analysed (or has failed) and every document has been processed.
C22_SequentialCalls ==
    /\ [](/\ Cardinality(Pending) <= 1
          /\ outstanding = Cardinality(Pending)
          /\ Pending \subseteq {Len(calls)}
          /\ \A k \in CallsOf("analyzeCompetitor") :
                 /\ k <= Len(data.competitors)
                 /\ calls[k].arg = data.competitors[k].url
                 /\ \A j \in 1..(k - 1) : calls[j].fn = "analyzeCompetitor"
          /\ \A k \in CallsOf("generateBattleCard") :
                 /\ k = Len(data.competitors) + 1
                 /\ k = Len(calls)
                 /\ gi = Len(data.competitors)
                 /\ Len(processedDocuments) = Len(data.documents))
    /\ [][Len(calls') > Len(calls) =>
              /\ Len(calls') = Len(calls) + 1
              /\ Pending = {}
              /\ \A k \in DOMAIN calls : calls'[k] = calls[k]
              /\ calls'[Len(calls')].state = "pending"]_vars

C22_Witness ==
    /\ Len(data.competitors) = MaxCompetitors
    /\ Len(data.documents) = MaxDocuments
    /\ Len(calls) = MaxCompetitors + 1
    /\ calls[2].state = "rejected"
    /\ calls[Len(calls)].fn = "generateBattleCard"
    /\ Pending = {Len(calls)}

-----------------------------------------------------------------------------
(* Properties of the wizard                                                 *)

Listed(list) == {list[k].id : k \in DOMAIN list}
Loading(list) == {list[k].id : k \in {j \in DOMAIN list : list[j].isLoading}}

\* C23: the validation callback scheduled for competitor c changes nothing
\* but c.isLoading, whatever was added or removed since it was scheduled:
\* the step that fires it keeps the listed competitors and their order, and
\* leaves nobody loading who was not loading before.
C23_CallbackOnlyClearsLoading ==
    [][Len(validationTimers') < Len(validationTimers) =>
           LET c == Head(validationTimers).id
               old == battleCardData.competitors
               new == battleCardData'.competitors
           IN  /\ Listed(new) = Listed(old)
               /\ Len(new) = Len(old)
               /\ \A k \in DOMAIN old : new[k].id = old[k].id
               /\ Loading(new) = Loading(old) \ {c}]_vars

\* C24: the list never holds more than three competitors, nor does a list
\* that a pending validation callback will put in its place; and the wizard
\* leaves the competitors step forwards only with a list that is not empty
\* and with no competitor loading.
C24_ListBounded ==
    /\ [](/\ Len(battleCardData.competitors) <= 3
          /\ \A k \in DOMAIN validationTimers :
                 Len(validationTimers[k].updatedCompetitors) <= 3)
    /\ [][(wizardStep = "competitors" /\ wizardStep' # "competitors") =>
              /\ wizardStep' = "use-case"
              /\ Len(battleCardData.competitors) > 0
              /\ Loading(battleCardData.competitors) = {}
              /\ battleCardData' = battleCardData]_vars

C24_Witness ==
    /\ wizardStep = "use-case"
    /\ Len(battleCardData.competitors) = 3
    /\ Loading(battleCardData.competitors) = {}
    /\ nextId <= MaxAdds

\* C25: at the export step the generated card is never null.  The step is
\* entered only by View & Export of a completed run, in the step that
\* stores the run's card; the card is cleared only by the reset, which
\* goes back to the competitors step.
C25_ExportHasCard ==
    /\ [](wizardStep = "export" => Len(generatedBattleCard) = 1)
    /\ [][/\ (wizardStep # "export" /\ wizardStep' = "export") =>
                /\ wizardStep = "generate"
                /\ isComplete
                /\ Len(error) = 0
                /\ gpc = "complete"
                /\ Len(genCard) = 1
                /\ generatedBattleCard' = genCard
          /\ (Len(generatedBattleCard) = 1 /\ Len(generatedBattleCard') = 0) =>
                /\ wizardStep = "export"
                /\ wizardStep' = "competitors"]_vars

C25_Witness ==
    /\ wizardStep = "export"
    /\ generatedBattleCard = <<GeneratedCard>>
    /\ "generate" \in {completedSteps[k] : k \in DOMAIN completedSteps}

Steps == {stepOrder[k] : k \in DOMAIN stepOrder}
Completed == {completedSteps[k] : k \in DOMAIN completedSteps}

\* C26: the wizard's step is always one of the six of stepOrder, and the
\* completed steps hold no step twice.  goNext moves one position forwards
\* and adds the step it leaves to the completed steps unless it is there,
\* and does nothing at 'export'; goBack moves one position backwards, does
\* nothing at 'competitors' and leaves the completed steps alone.  The step
\* changes in no other way than by one position, but for the reset.
C26_StepByStep ==
    /\ [](/\ wizardStep \in Steps
          /\ Completed \subseteq Steps
          /\ Cardinality(Completed) = Len(completedSteps))
    /\ [][/\ goNext =>
                IF wizardStep = "export"
                THEN /\ wizardStep' = "export"
                     /\ completedSteps' = completedSteps
                ELSE /\ IndexOf(wizardStep') = IndexOf(wizardStep) + 1
                     /\ completedSteps' =
                            IF wizardStep \in Completed THEN completedSteps
                            ELSE Append(completedSteps, wizardStep)
          /\ goBack =>
                /\ completedSteps' = completedSteps
                /\ IF wizardStep = "competitors"
                   THEN wizardStep' = "competitors"
                   ELSE IndexOf(wizardStep') = IndexOf(wizardStep) - 1
          /\ wizardStep' # wizardStep =>
                \/ goNext
                \/ goBack
                \/ /\ wizardStep = "export"
                   /\ wizardStep' = "competitors"
                   /\ completedSteps' = <<>>]_vars

C26_Witness ==
    /\ wizardStep = "documents"
    /\ completedSteps =
           <<"competitors", "use-case", "documents", "customize", "generate">>
    /\ generatedBattleCard = <<>>

\* a run of generateBattleCardAsync is in flight
Running == gpc \in {"analyze", "awaitAnalyze", "extract", "awaitGenerate",
                    "build"}

\* C27: in GenerateStep the error and isComplete are never both set.  A run
\* is in flight only with the error clear and isComplete false, so that
\* Back is disabled and Try Again is not shown: a run starts only on the
\* mount or after a failed run, and the step is left only when the run is
\* over.  During a run the progress step never decreases and stays within
\* 0..4.  isComplete becomes true only in the step that stores the card,
\* after generateBattleCard has fulfilled.
C27_OneRun ==
    /\ [](/\ ~(isComplete /\ Len(error) > 0)
          /\ currentStep \in 0..4
          /\ Running => (~isComplete /\ Len(error) = 0)
          /\ Running => wizardStep = "generate"
          /\ isComplete =>
                /\ gpc = "complete"
                /\ genCard = <<GeneratedCard>>
                /\ calls[Len(calls)] =
                       [fn |-> "generateBattleCard", arg |-> 0,
                        state |-> "fulfilled"])
    /\ [][/\ (gpc' = "start" /\ gpc # "start") => gpc \in {"off", "failed"}
          /\ (gpc' = "off" /\ gpc # "off") => gpc \in {"failed", "complete"}
          /\ attempt' # attempt =>
                \/ gpc = "start" /\ gpc' = "analyze"
                \/ gpc' \in {"start", "off"}
          /\ (Running /\ gpc' # "off") => currentStep' >= currentStep
          /\ (isComplete' /\ ~isComplete) =>
                /\ gpc = "build"
                /\ currentStep = 4
                /\ calls[Len(calls)].fn = "generateBattleCard"
                /\ calls[Len(calls)].state = "fulfilled"
                /\ genCard' = <<GeneratedCard>>]_vars

C27_Witness ==
    /\ wizardStep = "generate"
    /\ attempt = 2
    /\ isComplete
    /\ currentStep = 4
    /\ Len(data.competitors) = 3

-----------------------------------------------------------------------------
(* Properties of the export, continued                                      *)

\* C28: the "Discovery Questions" header is on the page and at the offset
\* of the "Pricing Model" header drawn in the same step, at the top of the
\* right-hand column; in that step the checkPageBreak(25) of
\* drawSectionHeader, which follows checkPageBreak(50), adds no page.
C28_HeadersAligned ==
    /\ \A k \in Ops({"sectionHeader"}) :
           doc[k].sec = "Discovery Questions" =>
               \E j \in Ops({"sectionHeader"}) :
                   /\ j < k
                   /\ doc[j].sec = "Pricing Model"
                   /\ doc[j].page = doc[k].page
                   /\ doc[j].y = doc[k].y
                   /\ doc[j].x = 3 * margin
                   /\ doc[k].x = 3 * (margin + colWidth + colGap)
    /\ pc = "testHeader" =>
           /\ Len(cpb) = 2
           /\ cpb[1].h = 50
           /\ cpb[2].h = 25
           /\ cpb[2].y0 = cpb[1].y1
           /\ ~cpb[2].ret
           /\ cpb[2].pages1 = cpb[1].pages1

C28_Witness ==
    /\ pc = "testHeader"
    /\ cpb[1].ret
    /\ \E k \in Ops({"sectionHeader"}) :
           doc[k].sec = "Discovery Questions" /\ doc[k].page > 1

-----------------------------------------------------------------------------
(* C29: the responses of the Lambda handler                                 *)

\* the request carries no competitors: none in the body, or an empty list
CompetitorsMissing ==
    /\ JSONparse(BodyText).ok
    /\ \/ Nullish(Input)
       \/ Nullish(Member(Input, "competitors"))
       \/ /\ Member(Input, "competitors").t = "array"
          /\ Member(Input, "competitors").a = <<>>

\* the request carries no use case
UseCaseMissing ==
    /\ JSONparse(BodyText).ok
    /\ Nullish(Input) \/ Nullish(Member(Input, "useCase"))

\* the handler answers a request without competitors or without a use case
\* with 400, having called neither Bedrock nor DynamoDB
RejectsWithoutCalls ==
    lpc # "received" /\ (CompetitorsMissing \/ UseCaseMissing)
        => /\ lpc = "done"
           /\ response[1].statusCode = 400
           /\ invoked = <<>>
           /\ stored = <<>>

\* every Put carries the card of a generation that succeeded
WritesAfterGeneration ==
    \A k \in DOMAIN stored :
        /\ k \in DOMAIN invoked
        /\ invoked[k].state = "settled"
        /\ GeneratedWith(invoked[k].reply) = <<stored[k].item.card>>

\* a 200 carries the card of a Put that succeeded
OkAfterWrite ==
    lpc = "done" /\ response[1].statusCode = 200
        => /\ stored # <<>>
           /\ stored[Len(stored)].state = "stored"
           /\ response[1].card = <<stored[Len(stored)].item.card>>

\* a failure of parsing, generation or storage is answered with 500
FailuresAnswered ==
    /\ lpc # "received" /\ ~JSONparse(BodyText).ok
           => lpc = "done" /\ response[1].statusCode = 500
    /\ \A k \in DOMAIN invoked :
           invoked[k].state = "settled" /\ GeneratedWith(invoked[k].reply) = <<>>
               => lpc = "done" /\ response[1].statusCode = 500
    /\ \A k \in DOMAIN stored :
           stored[k].state = "rejected"
               => lpc = "done" /\ response[1].statusCode = 500

\* C29: the handler returns 400 without invoking Bedrock or writing to
\* DynamoDB when competitors is missing or empty or when useCase is missing;
\* it writes the card only after generation succeeded; it returns 200 with
\* the card only after that write succeeded; and a failure of parsing,
\* generation or storage yields a 500 response.
C29_HandlerResponses ==
    /\ RejectsWithoutCalls
    /\ WritesAfterGeneration
    /\ OkAfterWrite
    /\ FailuresAnswered

-----------------------------------------------------------------------------
(* C30: the requests of GenerateStep pass the handler's validation          *)

\* C30: every request generateBattleCard is called with has a non-empty
\* competitors list and a use case that is not null, and the handler never
\* answers a request of GenerateStep with 400.
C30_NeverRejected ==
    /\ \A k \in DOMAIN request :
           /\ Len(request[k].competitors) > 0
           /\ request[k].useCase # "null"
    /\ \A k \in DOMAIN response : response[k].statusCode # 400

\* the handler answered 200 to a run whose form had no use case and one of
\* whose analyses had failed
C30_Witness ==
    /\ lpc = "done"
    /\ response[1].statusCode = 200
    /\ data.useCase = "null"
    /\ Len(competitorAnalyses) < Len(data.competitors)

====
